---- MODULE Spec2Model ----
(***************************************************************************)
(* Model of the lockchain unlock service (lockchain-core/src/service.rs),  *)
(* the key file codec (lockchain-core/src/keyfile.rs) and the capability   *)
(* interface it drives (lockchain-core/src/provider.rs).                   *)
(*                                                                         *)
(* One caller runs unlock / unlock_with_retry step by step: every provider *)
(* call and every file-system call is one action, the pure computation     *)
(* that follows a call is part of the same action.  The storage engine and *)
(* the key file are the environment: the provider may fail or misbehave at *)
(* every call, and the key file may be replaced or removed between steps.  *)
(***************************************************************************)
EXTENDS Integers, Sequences, FiniteSets, TLC

\* ------------------------------------------------------------------------
\* Bounds of the model: the largest retry.max_attempts a configuration has
\* in Spec and in SpecBackoff
\* ------------------------------------------------------------------------
MaxRetryAttempts == 2

MaxBackoffAttempts == 3

\* ------------------------------------------------------------------------
\* Program constants
\* ------------------------------------------------------------------------
KeyLen == 32
HexLen == 64
ModeOwnerRead == 256

\* ------------------------------------------------------------------------
\* Byte and text helpers (bytes and ASCII characters are 0..255)
\* ------------------------------------------------------------------------
Repeat(b, n) == [i \in 1..n |-> b]

RECURSIVE SumBytes(_)
SumBytes(s) == IF s = <<>> THEN 0 ELSE Head(s) + SumBytes(Tail(s))

RECURSIVE Flatten(_)
Flatten(ss) == IF ss = <<>> THEN <<>> ELSE Head(ss) \o Flatten(Tail(ss))

RECURSIVE XorBits(_, _, _)
XorBits(a, b, n) ==
    IF n = 0 THEN 0
    ELSE (((a % 2) + (b % 2)) % 2) + 2 * XorBits(a \div 2, b \div 2, n - 1)

XorByte(a, b) == XorBits(a, b, 8)

IsAsciiWhitespace(b) == b \in {9, 10, 12, 13, 32}

IsAsciiHexDigit(b) == (b \in 48..57) \/ (b \in 65..70) \/ (b \in 97..102)

HexVal(c) ==
    IF c \in 48..57 THEN c - 48
    ELSE IF c \in 65..70 THEN c - 55
    ELSE c - 87

HexChar(v) == IF v < 10 THEN 48 + v ELSE 87 + v

ToAsciiLower(c) == IF c \in 65..90 THEN c + 32 ELSE c

ToAsciiUpper(c) == IF c \in 97..122 THEN c - 32 ELSE c

EqIgnoreAsciiCase(a, b) ==
    /\ Len(a) = Len(b)
    /\ \A i \in 1..Len(a) : ToAsciiLower(a[i]) = ToAsciiLower(b[i])

\* hex::FromHex for Vec<u8>: fails on odd length or a non-hex character
FromHexOk(s) ==
    /\ Len(s) % 2 = 0
    /\ \A i \in 1..Len(s) : IsAsciiHexDigit(s[i])

FromHex(s) == [i \in 1..(Len(s) \div 2) |-> 16 * HexVal(s[2 * i - 1]) + HexVal(s[2 * i])]

\* hex::encode: lower-case digits
HexEncode(bytes) ==
    [i \in 1..(2 * Len(bytes)) |->
        IF i % 2 = 1 THEN HexChar(bytes[(i + 1) \div 2] \div 16)
        ELSE HexChar(bytes[i \div 2] % 16)]

\* ------------------------------------------------------------------------
\* keyfile.rs: decode_key_bytes
\* ------------------------------------------------------------------------
NotWhitespace(b) == ~IsAsciiWhitespace(b)

DecodeErr(reason) == [ok |-> FALSE, key |-> <<>>, converted |-> FALSE, reason |-> reason]

DecodeOk(key, converted) == [ok |-> TRUE, key |-> key, converted |-> converted, reason |-> "none"]

\* a decoder that takes hex text of any length
decode_key_bytes_AnyLength(bytes) ==
    IF Len(bytes) = KeyLen THEN DecodeOk(bytes, FALSE)
    ELSE IF bytes = <<>> THEN DecodeErr("file is empty")
    ELSE LET filtered == SelectSeq(bytes, NotWhitespace) IN
         IF \E i \in 1..Len(bytes) : NotWhitespace(bytes[i]) /\ ~IsAsciiHexDigit(bytes[i])
            THEN DecodeErr("found non-hex byte")
         ELSE IF filtered = <<>> THEN DecodeErr("file is empty")
         ELSE IF ~FromHexOk(filtered) THEN DecodeErr("odd number of digits")
         ELSE DecodeOk(FromHex(filtered), TRUE)

\* a decoder that knows the digits a-f in lower case only
decode_key_bytes_LowerCaseOnly(bytes) ==
    IF Len(bytes) = KeyLen THEN DecodeOk(bytes, FALSE)
    ELSE IF bytes = <<>> THEN DecodeErr("file is empty")
    ELSE LET filtered == SelectSeq(bytes, NotWhitespace) IN
         IF \E i \in 1..Len(bytes) :
               NotWhitespace(bytes[i]) /\ bytes[i] \notin (48..57) \cup (97..102)
            THEN DecodeErr("found non-hex byte")
         ELSE IF filtered = <<>> THEN DecodeErr("file is empty")
         ELSE IF Len(filtered) # HexLen THEN DecodeErr("hex key must contain exactly 64 hex digits")
         ELSE DecodeOk(FromHex(filtered), TRUE)

\* a decoder that passes over the bytes that are no hex digits
decode_key_bytes_DropsNonHex(bytes) ==
    IF Len(bytes) = KeyLen THEN DecodeOk(bytes, FALSE)
    ELSE IF bytes = <<>> THEN DecodeErr("file is empty")
    ELSE LET filtered == SelectSeq(bytes, IsAsciiHexDigit) IN
         IF filtered = <<>> THEN DecodeErr("file is empty")
         ELSE IF Len(filtered) # HexLen THEN DecodeErr("hex key must contain exactly 64 hex digits")
         ELSE DecodeOk(FromHex(filtered), TRUE)

\* keyfile.rs decode_key_bytes 24-74
decode_key_bytes(bytes) ==
    IF Len(bytes) = KeyLen THEN DecodeOk(bytes, FALSE)
    ELSE IF bytes = <<>> THEN DecodeErr("file is empty")
    ELSE LET filtered == SelectSeq(bytes, NotWhitespace) IN
         IF \E i \in 1..Len(bytes) : NotWhitespace(bytes[i]) /\ ~IsAsciiHexDigit(bytes[i])
            THEN DecodeErr("found non-hex byte")
         ELSE IF filtered = <<>> THEN DecodeErr("file is empty")
         ELSE IF Len(filtered) # HexLen THEN DecodeErr("hex key must contain exactly 64 hex digits")
         ELSE LET key == FromHex(filtered) IN
              IF Len(key) # KeyLen THEN DecodeErr("decoded key must be 32 bytes")
              ELSE DecodeOk(key, TRUE)

\* ------------------------------------------------------------------------
\* Option values, errors and results
\* ------------------------------------------------------------------------
None == [some |-> FALSE, val |-> <<>>]

Some(v) == [some |-> TRUE, val |-> v]

\* One record shape for every LockchainResult<UnlockReport>
BlankResult ==
    [ok |-> FALSE, kind |-> "None", detail |-> "", attempts |-> 0, last_error |-> <<>>,
     dataset |-> "", encryption_root |-> "", unlocked |-> <<>>, already_unlocked |-> FALSE]

Err(kind, detail) == [BlankResult EXCEPT !.kind = kind, !.detail = detail]

\* error.rs: the text of an error is its code followed by its argument
ErrorCode(kind) ==
    CASE kind = "Io" -> "LC1000"
      [] kind = "InvalidConfig" -> "LC1100"
      [] kind = "DatasetNotConfigured" -> "LC1200"
      [] kind = "MissingKeySource" -> "LC1201"
      [] kind = "InvalidHexKey" -> "LC1300"
      [] kind = "Provider" -> "LC2000"
      [] kind = "RetryExhausted" -> "LC3000"
      [] OTHER -> "none"

ErrorText(err) == <<ErrorCode(err.kind), err.detail>>

\* an exhaustion error that keeps the code of the last error but not its text
RetryExhausted_CodeOnly(attempts, err) ==
    [BlankResult EXCEPT !.kind = "RetryExhausted", !.attempts = attempts,
                        !.last_error = <<ErrorCode(err.kind), "">>]

\* service.rs 77-80: RetryExhausted { attempts: attempt, last_error: err.to_string() }
RetryExhausted(attempts, err) ==
    [BlankResult EXCEPT !.kind = "RetryExhausted", !.attempts = attempts,
                        !.last_error = ErrorText(err)]

UnlockReport(dataset, root, unlocked, already) ==
    [BlankResult EXCEPT !.ok = TRUE, !.kind = "Ok", !.dataset = dataset,
                        !.encryption_root = root, !.unlocked = unlocked,
                        !.already_unlocked = already]

\* ------------------------------------------------------------------------
\* Abstractions of the external cryptographic primitives.  Sha256 and
\* Pbkdf2 are deterministic functions of their inputs; the digest is two
\* bytes wide and the pad is a counter stream seeded by the inputs.
\* ------------------------------------------------------------------------
Sha256(bytes) == <<SumBytes(bytes) % 256, (7 * Len(bytes) + 3 * SumBytes(bytes)) % 256>>

Pbkdf2(passphrase, salt, iterations, n) ==
    [i \in 1..n |-> (SumBytes(passphrase) + 3 * SumBytes(salt) + 5 * iterations + 11 * i) % 256]

\* ------------------------------------------------------------------------
\* Datasets and the inputs the model draws from
\* ------------------------------------------------------------------------
RootDs == "tank/secure"

ChildDs == "tank/secure/home"

OtherDs == "tank/other"

WorkDs == "tank/secure/work"

VaultDs == "vault/data"

\* a dataset under the root that is an encryption root of its own
NestedDs == "tank/secure/nested"

\* a dataset the storage engine does not have
MissingDs == "tank/missing"

\* a name with an empty first component
BadDs == "/invalid"

\* lexicographic order of the dataset names
DatasetOrder == <<BadDs, OtherDs, RootDs, ChildDs, NestedDs, WorkDs, VaultDs>>

Group == {RootDs, ChildDs}

SortedList(S) == SelectSeq(DatasetOrder, LAMBDA d : d \in S)

KeyA == Repeat(17, KeyLen)

KeyB == Repeat(171, KeyLen)

KeyC == Repeat(66, KeyLen)

KeyF == [i \in 1..KeyLen |-> (3 * i) % 256]

\* "ABababab" then "abababab" seven times, a newline after every 8 digits:
\* the 64 hex digits of KeyB
HexFileB ==
    Flatten([j \in 1..8 |->
        (IF j = 1 THEN <<65, 66, 97, 98, 97, 98, 97, 98>>
         ELSE <<97, 98, 97, 98, 97, 98, 97, 98>>) \o <<10>>])

\* "00": valid hex digits, wrong length (service.rs test)
ShortFile == <<48, 48>>

FileContents == {KeyA, HexFileB, ShortFile}

\* modes a file has before the service touches it (0644)
FileModes == {420}

Passphrase == <<112, 119>>

SaltHex == <<97, 49, 98, 50>>

PassphraseIters == 1

\* provisioning stores the key masked with the pad of the right passphrase
XorHex ==
    LET pad == Pbkdf2(Passphrase, FromHex(SaltHex), PassphraseIters, KeyLen)
    IN HexEncode([i \in 1..KeyLen |-> XorByte(KeyF[i], pad[i])])

FallbackConfigs ==
    { [enabled |-> FALSE, passphrase_salt |-> None, passphrase_xor |-> None,
       passphrase_iters |-> PassphraseIters],
      [enabled |-> TRUE, passphrase_salt |-> Some(SaltHex), passphrase_xor |-> Some(XorHex),
       passphrase_iters |-> PassphraseIters],
      [enabled |-> TRUE, passphrase_salt |-> None, passphrase_xor |-> Some(XorHex),
       passphrase_iters |-> PassphraseIters] }

\* jitter_ratio is kept in hundredths (10 is the default 0.1)
RetryConfigs ==
    { [max_attempts |-> 0, base_delay_ms |-> 0, max_delay_ms |-> 0, jitter_pct |-> 0],
      [max_attempts |-> MaxRetryAttempts, base_delay_ms |-> 500, max_delay_ms |-> 5000, jitter_pct |-> 10] }

\* the digest of KeyA in upper case, as an operator may have pasted it, and
\* the digest of KeyB as hex::encode prints it
ExpectedDigests ==
    { None,
      Some([i \in 1..4 |-> ToAsciiUpper(HexEncode(Sha256(KeyA))[i])]),
      Some(HexEncode(Sha256(KeyB))) }

Configs ==
    [ datasets : {<<RootDs, ChildDs>>},
      expected_sha256 : ExpectedDigests,
      fallback : FallbackConfigs,
      retry : RetryConfigs ]

UnlockOptions ==
    [ strict_usb : BOOLEAN,
      fallback_passphrase : {None, Some(Passphrase)},
      key_override : {None, Some(KeyC)} ]

CallDatasets == {ChildDs, OtherDs}

\* ------------------------------------------------------------------------
\* State
\* ------------------------------------------------------------------------
VARIABLES
    config,          \* LockchainService.config (never changes after construction)
    locked,          \* storage engine: datasets of the group whose key is not loaded
    keyFile,         \* the file at config.key_hex_path()
    pc,              \* position of the caller
    call,            \* the running call: function, dataset, options
    attempt,         \* unlock_with_retry: attempt
    delay_ms,        \* unlock_with_retry: delay_ms
    root,            \* perform_unlock: root
    locked_before,   \* perform_unlock: locked_before (Some(list) once queried)
    usb,             \* key_material: what load_usb_key returned to the attempt
    file_seen,       \* read_key_file: the bytes fs::read returned to the attempt
    key,             \* key material held by the attempt
    unlocked,        \* perform_unlock: unlocked (result of load_key_tree)
    locked_after,    \* perform_unlock: locked_after (Some(list) once re-queried)
    attemptResult,   \* what perform_unlock returned
    result,          \* what the call returned
    trace,           \* operations the current attempt has performed, in order
    observed_keys,   \* keys handed to load_key_tree by the current attempt
    sleeps,          \* durations slept by the call
    prev_attempt,    \* the failed attempt before the current one: its result and its keys
    status_call,     \* a running call of status: position, locals and result
    provider_call,   \* a running call of the system provider: position, locals and result
    codec_call,      \* a call of decode_key_bytes: how the input was made, input and result
    keyDir,          \* whether the directory of the key file exists
    write_call,      \* a running call of write_raw_key_file: position, input and result
    fallback_call,    \* a call of derive_fallback_key: passphrase and result, what provisioning stored
    callers,          \* two callers of unlock running at once: each one's position, locals and result
    drill_call,       \* a running drill_key: position, unlock report, post-check and events
    health,           \* the daemon's HealthChannel: stored flags, watch channel, the two tasks' calls, last answer served
    watcher,          \* lockchain-key-usb: the event being handled, the active device, what the last event did
    forge_call       \* a running forge_key: position, inputs, what was asked of the engine, the steps taken on token and system

vars == <<config, locked, keyFile, pc, call, attempt, delay_ms, root, locked_before, usb,
          file_seen, key,
          unlocked, locked_after, attemptResult, result, trace, observed_keys, sleeps,
          prev_attempt, status_call, provider_call, codec_call, keyDir, write_call,
          fallback_call,
          callers,
          drill_call,
          health,
          watcher,
          forge_call>>

NoCall == [fn |-> "none", dataset |-> "", options |-> [strict_usb |-> FALSE,
           fallback_passphrase |-> None, key_override |-> None]]

AbsentFile == [exists |-> FALSE, content |-> <<>>, mode |-> 0]

\* One record shape for every LockchainResult<DatasetStatus>
BlankStatus ==
    [ok |-> FALSE, kind |-> "None", detail |-> "", dataset |-> "", encryption_root |-> "",
     root_locked |-> FALSE, locked_descendants |-> <<>>]

StatusErr(kind, detail) == [BlankStatus EXCEPT !.kind = kind, !.detail = detail]

NoStatusCall ==
    [pc |-> "idle", dataset |-> "", root |-> "", locked |-> None, trace |-> <<>>,
     result |-> BlankStatus]

NoAttempt == [res |-> BlankResult, keys |-> <<>>]

\* One record shape for every WorkflowEvent: the level, the text and what
\* the text is formatted with
event(level, message, name, count) ==
    [level |-> level, message |-> message, name |-> name, count |-> count]

\* the tasks of the daemon that report to the HealthChannel
HealthTasks == {"watch_usb", "periodic_unlock"}

IdleSetter == [pc |-> "idle", changed |-> FALSE, healthy |-> FALSE]

\* lockchain-daemon main.rs 23-28 (HealthState::default), 101
\* (watch::channel(false)), before a task has reported
NoHealth ==
    [usb_ready |-> FALSE, unlock_ready |-> FALSE, tx |-> FALSE,
     setter |-> [t \in HealthTasks |-> IdleSetter], served |-> "none"]

\* a udev device as an event carries it: devpath, devnode ("" when it has
\* none), the properties device_matches reads, whether the partition gets
\* mounted in time and what its key file holds
NoDevice ==
    [devpath |-> "", devnode |-> "", devtype |-> "", id_bus |-> "", mounted |-> FALSE,
     source |-> None]

NoActive == [some |-> FALSE, devpath |-> "", devnode |-> ""]

NoEvent == [action |-> "none", device |-> NoDevice, outcome |-> "none", cleared |-> "none"]

\* lockchain-key-usb main.rs UsbKeyDaemon::new 84-89: no active device
NoWatcher ==
    [pc |-> "idle", device |-> NoDevice, key |-> <<>>, active |-> NoActive,
     imported |-> <<>>, last |-> NoEvent]

NoDrillCall ==
    [pc |-> "idle", dataset |-> "", strict_usb |-> FALSE, report |-> BlankResult,
     locked_post |-> None, events |-> <<>>, result |-> BlankResult]

\* One record shape for every result of the system provider
BlankProviderResult == [ok |-> FALSE, kind |-> "None", detail |-> "", list |-> <<>>]

ProviderOk(list) == [ok |-> TRUE, kind |-> "Ok", detail |-> "", list |-> list]

ProviderErr(kind, detail) == [BlankProviderResult EXCEPT !.kind = kind, !.detail = detail]

NoProviderCall ==
    [fn |-> "none", pc |-> "idle", datasets |-> <<>>, root |-> "", key |-> <<>>, i |-> 0,
     pool |-> "", after_pool |-> "", after_list |-> "", checked_pools |-> {},
     encryption_root |-> "", snapshot |-> <<>>, same_root |-> {}, pending |-> <<>>,
     unlocked |-> <<>>, loads |-> <<>>, answer |-> [status |-> 0, stdout |-> <<>>, stderr |-> <<>>],
     result |-> BlankProviderResult]

\* One record shape for every LockchainResult<DecodedKey>
BlankDecoded ==
    [ok |-> FALSE, key |-> <<>>, converted |-> FALSE, kind |-> "None", path |-> "",
     reason |-> ""]

NoCodecCall ==
    [pc |-> "idle", buffer |-> <<>>, bytes |-> <<>>, encoded |-> FALSE, damaged |-> FALSE,
     origin |-> "", result |-> BlankDecoded]

\* One record shape for every LockchainResult<()>
BlankUnit == [ok |-> FALSE, kind |-> "None", detail |-> ""]

NoWriteCall ==
    [pc |-> "idle", key |-> <<>>, before |-> AbsentFile, made_dir |-> FALSE,
     result |-> BlankUnit]

NoForgeCall ==
    [pc |-> "idle", dataset |-> "", mode |-> "", force_wipe |-> FALSE, passphrase |-> None,
     rebuild_initramfs |-> FALSE, encryption_root |-> "", locked_descendants |-> None,
     key_material |-> <<>>, steps |-> <<>>, result |-> BlankUnit]

\* One derivation of the fallback key: what it read and what it returned
BlankDerivation ==
    [some |-> FALSE, salt |-> None, xor |-> None, iters |-> 0, passphrase |-> <<>>,
     result |-> [ok |-> FALSE, key |-> <<>>, err |-> BlankResult]]

\* derive_fallback_key is not running; nothing has been provisioned, edited
\* or derived
NoFallbackCall ==
    [pc |-> "idle", now |-> BlankDerivation, earlier |-> BlankDerivation,
     provisioned |-> [some |-> FALSE, passphrase |-> <<>>, key |-> <<>>], edits |-> 0]

\* Two callers of unlock on one service, each with the locals of its
\* perform_unlock
Callers == {1, 2}

IdleCaller ==
    [pc |-> "idle", privileged |-> FALSE, dataset |-> "", options |-> NoCall.options,
     root |-> "", locked_before |-> None, file_seen |-> None, key |-> <<>>,
     unlocked |-> <<>>, result |-> BlankResult]

NoCallers == [c \in Callers |-> IdleCaller]

\* no call of another part of the program is running
OthersIdle ==
    /\ provider_call = NoProviderCall
    /\ codec_call = NoCodecCall
    /\ keyDir = TRUE
    /\ write_call = NoWriteCall
    /\ fallback_call = NoFallbackCall
    /\ callers = NoCallers
    /\ drill_call = NoDrillCall
    /\ health = NoHealth
    /\ watcher = NoWatcher
    /\ forge_call = NoForgeCall

UsbNone == [state |-> "none", key |-> <<>>, err |-> BlankResult]

UsbOk(k) == [state |-> "ok", key |-> k, err |-> BlankResult]

UsbErr(e) == [state |-> "err", key |-> <<>>, err |-> e]

Max(a, b) == IF a >= b THEN a ELSE b

Min(a, b) == IF a <= b THEN a ELSE b

\* ------------------------------------------------------------------------
\* config.rs / service.rs: pure parts
\* ------------------------------------------------------------------------
\* a policy check that lets every dataset through
contains_dataset_Any(cfg, dataset) == TRUE

contains_dataset(cfg, dataset) ==
    \E i \in 1..Len(cfg.datasets) : cfg.datasets[i] = dataset

\* a checksum verification that accepts every key
verify_checksum_Skipped(cfg, k) == [ok |-> TRUE, err |-> BlankResult]

\* service.rs verify_checksum: Ok, or InvalidConfig on a digest mismatch
verify_checksum(cfg, k) ==
    IF cfg.expected_sha256.some
    THEN LET actual == HexEncode(Sha256(k)) IN
         IF ~EqIgnoreAsciiCase(cfg.expected_sha256.val, actual)
         THEN [ok |-> FALSE, err |-> Err("InvalidConfig", "usb.expected_sha256 mismatch")]
         ELSE [ok |-> TRUE, err |-> BlankResult]
    ELSE [ok |-> TRUE, err |-> BlankResult]

KeyOk(k) == [ok |-> TRUE, key |-> k, err |-> BlankResult]

KeyErr(e) == [ok |-> FALSE, key |-> <<>>, err |-> e]

\* a derivation that unmasks a masked value of any length
derive_fallback_key_AnyMaskLength(cfg, passphrase) ==
    LET fallback == cfg.fallback IN
    IF ~fallback.passphrase_salt.some \/ ~fallback.passphrase_xor.some
    THEN KeyErr(Err("InvalidConfig", "fallback material missing"))
    ELSE IF ~FromHexOk(fallback.passphrase_salt.val) \/ ~FromHexOk(fallback.passphrase_xor.val)
    THEN KeyErr(Err("InvalidConfig", "invalid fallback material"))
    ELSE LET cipher == FromHex(fallback.passphrase_xor.val)
             derived == Pbkdf2(passphrase, FromHex(fallback.passphrase_salt.val),
                               Max(fallback.passphrase_iters, 1), Len(cipher))
         IN KeyOk([i \in 1..Len(cipher) |-> XorByte(cipher[i], derived[i])])

\* a derivation that runs the configured number of rounds, zero included
derive_fallback_key_RawIters(cfg, passphrase) ==
    LET fallback == cfg.fallback IN
    IF ~fallback.passphrase_salt.some \/ ~fallback.passphrase_xor.some
    THEN KeyErr(Err("InvalidConfig", "fallback material missing"))
    ELSE IF ~FromHexOk(fallback.passphrase_salt.val) \/ ~FromHexOk(fallback.passphrase_xor.val)
    THEN KeyErr(Err("InvalidConfig", "invalid fallback material"))
    ELSE LET cipher == FromHex(fallback.passphrase_xor.val)
             derived == Pbkdf2(passphrase, FromHex(fallback.passphrase_salt.val),
                               fallback.passphrase_iters, Len(cipher))
         IN IF Len(cipher) # KeyLen
            THEN KeyErr(Err("InvalidConfig", "fallback.passphrase_xor length must be 32 bytes"))
            ELSE KeyOk([i \in 1..Len(cipher) |-> XorByte(cipher[i], derived[i])])

\* service.rs derive_fallback_key
derive_fallback_key(cfg, passphrase) ==
    LET fallback == cfg.fallback IN
    IF ~fallback.passphrase_salt.some
    THEN KeyErr(Err("InvalidConfig", "fallback.passphrase_salt missing"))
    ELSE IF ~fallback.passphrase_xor.some
    THEN KeyErr(Err("InvalidConfig", "fallback.passphrase_xor missing"))
    ELSE IF ~FromHexOk(fallback.passphrase_salt.val)
    THEN KeyErr(Err("InvalidConfig", "invalid fallback.passphrase_salt"))
    ELSE IF ~FromHexOk(fallback.passphrase_xor.val)
    THEN KeyErr(Err("InvalidConfig", "invalid fallback.passphrase_xor"))
    ELSE LET salt == FromHex(fallback.passphrase_salt.val)
             cipher == FromHex(fallback.passphrase_xor.val)
         IN IF Len(cipher) # KeyLen
            THEN KeyErr(Err("InvalidConfig", "fallback.passphrase_xor length must be 32 bytes"))
            ELSE LET iterations == Max(fallback.passphrase_iters, 1)
                     derived == Pbkdf2(passphrase, salt, iterations, Len(cipher))
                 IN KeyOk([i \in 1..Len(cipher) |-> XorByte(cipher[i], derived[i])])

\* the gate without the strict_usb test
UsbErrorIsFinal_IgnoresStrict(cfg, options, err) ==
    err.kind # "Io" \/ ~cfg.fallback.enabled

\* the gate without the test of the error's kind
UsbErrorIsFinal_IgnoresKind(cfg, options, err) ==
    options.strict_usb \/ ~cfg.fallback.enabled

\* the gate without the fallback.enabled test
UsbErrorIsFinal_IgnoresEnabled(cfg, options, err) ==
    err.kind # "Io" \/ options.strict_usb

\* service.rs key_material, the gate of the Err(err) arm: TRUE when the
\* error is returned, FALSE when resolution goes on to the passphrase
UsbErrorIsFinal(cfg, options, err) ==
    LET io_error == err.kind = "Io" IN
    ~io_error \/ options.strict_usb \/ ~cfg.fallback.enabled

\* service.rs key_material, from the Err(err) arm of load_usb_key to the end.
\* The outcome is where the attempt goes next.
KeyFromUsbErr(cfg, dataset, options, err) ==
    LET missing == err.kind = "Io" /\ err.detail = "NotFound" IN
    IF UsbErrorIsFinal(cfg, options, err)
    THEN [pc |-> "attempt_done", key |-> <<>>,
          res |-> IF missing THEN Err("MissingKeySource", dataset) ELSE err, ops |-> <<>>]
    ELSE IF ~options.fallback_passphrase.some
    THEN [pc |-> "attempt_done", key |-> <<>>, res |-> Err("MissingKeySource", dataset),
          ops |-> <<>>]
    ELSE LET d == derive_fallback_key(cfg, options.fallback_passphrase.val) IN
         IF d.ok
         THEN [pc |-> "load_key_tree", key |-> d.key, res |-> BlankResult,
               ops |-> <<"derive_fallback_key">>]
         ELSE [pc |-> "attempt_done", key |-> <<>>, res |-> d.err,
               ops |-> <<"derive_fallback_key">>]

\* service.rs key_material, the Ok(key) arm of load_usb_key
KeyFromUsb(cfg, k) ==
    LET v == verify_checksum(cfg, k) IN
    IF v.ok
    THEN [pc |-> "load_key_tree", key |-> k, res |-> BlankResult, ops |-> <<"verify_checksum">>]
    ELSE [pc |-> "attempt_done", key |-> <<>>, res |-> v.err, ops |-> <<"verify_checksum">>]

\* key resolution that goes to the key file whatever the options say
KeyFromOverride_Ignored(options) ==
    [pc |-> "read_key_file", key |-> <<>>, res |-> BlankResult, ops |-> <<>>]

\* service.rs key_material 169-171: the override wins over every other source
KeyFromOverride(options) ==
    IF options.key_override.some
    THEN [pc |-> "load_key_tree", key |-> options.key_override.val, res |-> BlankResult,
          ops |-> <<>>]
    ELSE [pc |-> "read_key_file", key |-> <<>>, res |-> BlankResult, ops |-> <<>>]

\* a first lock check that always finds the root locked
RootLockedBefore_Always(list, r) == TRUE

\* perform_unlock 110: locked_before.iter().any(|ds| ds == &root)
RootLockedBefore(list, r) == \E i \in 1..Len(list) : list[i] = r

\* a verification that never finds the root locked
RootLockedAfter_Never(list, r) == FALSE

\* perform_unlock 123: locked_after.iter().any(|ds| ds == &root)
RootLockedAfter(list, r) == \E i \in 1..Len(list) : list[i] = r

\* a loop that returns key-resolution and configuration errors at once
RetryOutcome_KeyErrorsFinal(retry, a, res) ==
    IF res.ok \/ res.kind \in {"MissingKeySource", "InvalidHexKey", "InvalidConfig"}
    THEN [done |-> TRUE, result |-> res]
    ELSE IF a >= retry.max_attempts THEN [done |-> TRUE, result |-> RetryExhausted(a, res)]
    ELSE [done |-> FALSE, result |-> BlankResult]

\* a loop that gives up when the counter equals max_attempts
RetryOutcome_ExactCount(retry, a, res) ==
    IF res.ok THEN [done |-> TRUE, result |-> res]
    ELSE IF a = retry.max_attempts THEN [done |-> TRUE, result |-> RetryExhausted(a, res)]
    ELSE [done |-> FALSE, result |-> BlankResult]

\* a loop that gives up one attempt late
RetryOutcome_OffByOne(retry, a, res) ==
    IF res.ok THEN [done |-> TRUE, result |-> res]
    ELSE IF a > retry.max_attempts THEN [done |-> TRUE, result |-> RetryExhausted(a, res)]
    ELSE [done |-> FALSE, result |-> BlankResult]

\* service.rs unlock_with_retry 73-81: what the loop does with the outcome of
\* attempt number a: return it, return RetryExhausted, or go on
RetryOutcome(retry, a, res) ==
    IF res.ok THEN [done |-> TRUE, result |-> res]
    ELSE IF a >= retry.max_attempts THEN [done |-> TRUE, result |-> RetryExhausted(a, res)]
    ELSE [done |-> FALSE, result |-> BlankResult]

\* a jitter whose offset is not centred on zero
JitterMs_UncentredOffset(retry, a, delay) ==
    IF retry.jitter_pct > 0
    THEN LET pseudo == (a * 37) % 100
             scaled == delay * (10000 + retry.jitter_pct * pseudo)
         IN IF scaled < 10000 THEN 1 ELSE (scaled + 5000) \div 10000
    ELSE delay

\* service.rs unlock_with_retry 83-89: the sleep after failed attempt number
\* a.  The code computes in f64; the model computes the same quantity in
\* ten-thousandths of a millisecond and rounds half up as f64::round does.
\* On the configurations the model draws the two agree.
JitterMs(retry, a, delay) ==
    IF retry.jitter_pct > 0
    THEN LET pseudo == ((a * 37) % 100) - 50
             scaled == delay * (10000 + retry.jitter_pct * pseudo)
         IN IF scaled < 10000 THEN 1 ELSE (scaled + 5000) \div 10000
    ELSE delay

NextDelay(retry, delay) == Min(delay * 2, Max(retry.max_delay_ms, 1))

\* ------------------------------------------------------------------------
\* Initial state: a constructed service, nothing running
\* ------------------------------------------------------------------------
Init ==
    /\ config \in Configs
    /\ locked \in {{}, {RootDs}, {RootDs, ChildDs}}
    /\ keyFile \in {AbsentFile} \cup [exists : {TRUE}, content : FileContents, mode : FileModes]
    /\ pc = "idle"
    /\ call = NoCall
    /\ attempt = 0
    /\ delay_ms = 0
    /\ root = ""
    /\ locked_before = None
    /\ usb = UsbNone
    /\ file_seen = None
    /\ key = <<>>
    /\ unlocked = <<>>
    /\ locked_after = None
    /\ attemptResult = BlankResult
    /\ result = BlankResult
    /\ trace = <<>>
    /\ observed_keys = <<>>
    /\ sleeps = <<>>
    /\ prev_attempt = NoAttempt
    /\ status_call = NoStatusCall
    /\ OthersIdle

\* what the service is constructed with and what it drives
world == <<config, locked, keyFile>>

\* the calls of the other parts of the program
others == <<provider_call, codec_call, keyDir, write_call, fallback_call, callers, drill_call, health, watcher, forge_call>>

\* the calls neither unlock nor the provider has a part in
aside == <<codec_call, keyDir, write_call, fallback_call, callers, drill_call, health, watcher, forge_call>>

\* the locals of unlock_with_retry
loop == <<call, attempt, delay_ms, result, sleeps, prev_attempt>>

\* ------------------------------------------------------------------------
\* The caller
\* ------------------------------------------------------------------------
\* service.rs unlock (57-59) / unlock_with_retry (62-69): entry
Call(fn, dataset, options) ==
    /\ pc = "idle"
    /\ call' = [fn |-> fn, dataset |-> dataset, options |-> options]
    /\ attempt' = 0
    /\ delay_ms' = IF fn = "unlock_with_retry" THEN Max(config.retry.base_delay_ms, 1) ELSE 0
    /\ pc' = "perform_unlock"
    /\ UNCHANGED <<others, status_call, world, root, locked_before, usb, file_seen, key, unlocked, locked_after,
                   attemptResult,
                   result, trace, observed_keys, sleeps, prev_attempt>>

\* service.rs 72 and perform_unlock 104-106: a new attempt, policy check
PerformUnlock ==
    /\ pc = "perform_unlock"
    /\ attempt' = attempt + 1
    /\ trace' = <<>>
    /\ root' = ""
    /\ locked_before' = None
    /\ usb' = UsbNone
    /\ file_seen' = None
    /\ key' = <<>>
    /\ unlocked' = <<>>
    /\ locked_after' = None
    /\ observed_keys' = <<>>
    /\ IF ~contains_dataset(config, call.dataset)
       THEN /\ attemptResult' = Err("DatasetNotConfigured", call.dataset)
            /\ pc' = "attempt_done"
       ELSE /\ attemptResult' = BlankResult
            /\ pc' = "encryption_root"
    /\ UNCHANGED <<others, status_call, world, call, delay_ms, result, sleeps, prev_attempt>>

\* a root resolution whose error does not end the attempt
EncryptionRoot_Unchecked ==
    /\ pc = "encryption_root"
    /\ trace' = Append(trace, "encryption_root")
    /\ pc' = "locked_before"
    /\ \/ /\ root' = RootDs
          /\ UNCHANGED attemptResult
       \/ /\ attemptResult' = Err("Provider", "encryption_root failed")
          /\ root' = call.dataset
    /\ UNCHANGED <<others, status_call, world, loop, locked_before, usb, file_seen, key, unlocked, locked_after,
                   observed_keys>>

\* perform_unlock 108: provider.encryption_root(dataset)?
EncryptionRoot ==
    /\ pc = "encryption_root"
    /\ trace' = Append(trace, "encryption_root")
    /\ \/ /\ root' = RootDs
          /\ pc' = "locked_before"
          /\ UNCHANGED attemptResult
       \/ /\ attemptResult' = Err("Provider", "encryption_root failed")
          /\ pc' = "attempt_done"
          /\ UNCHANGED root
    /\ UNCHANGED <<others, status_call, world, loop, locked_before, usb, file_seen, key, unlocked, locked_after,
                   observed_keys>>

\* Where the attempt goes after a step of key resolution
KeyStage(n, ops) ==
    /\ pc' = n.pc
    /\ key' = n.key
    /\ attemptResult' = n.res
    /\ trace' = trace \o ops \o n.ops

\* perform_unlock 109-119 and key_material 169-171: first lock query, the
\* already-unlocked return, and the key override
LockedBefore ==
    /\ pc = "locked_before"
    /\ \/ LET list == SortedList(locked) IN
          /\ locked_before' = Some(list)
          /\ IF ~RootLockedBefore(list, root)
             THEN /\ attemptResult' = UnlockReport(call.dataset, root, <<>>, TRUE)
                  /\ pc' = "attempt_done"
                  /\ trace' = Append(trace, "locked_descendants")
                  /\ UNCHANGED key
             ELSE KeyStage(KeyFromOverride(call.options), <<"locked_descendants">>)
       \/ /\ attemptResult' = Err("Provider", "locked_descendants failed")
          /\ pc' = "attempt_done"
          /\ trace' = Append(trace, "locked_descendants")
          /\ UNCHANGED <<locked_before, key>>
    /\ UNCHANGED <<others, status_call, world, loop, root, usb, file_seen, unlocked, locked_after, observed_keys>>

\* key_material 174-204 when load_usb_key returned Err(e)
LoadUsbFailed(e, ops) ==
    /\ usb' = UsbErr(e)
    /\ KeyStage(KeyFromUsbErr(config, call.dataset, call.options, e), ops)

\* a service that keeps the key an earlier attempt of the call resolved
LoadUsbSucceeded_Cached(k, ops) ==
    /\ usb' = UsbOk(k)
    /\ KeyStage(KeyFromUsb(config, IF prev_attempt.keys # <<>> THEN prev_attempt.keys[1] ELSE k),
                ops)

\* key_material 174-178 when load_usb_key returned Ok(k)
LoadUsbSucceeded(k, ops) ==
    /\ usb' = UsbOk(k)
    /\ KeyStage(KeyFromUsb(config, k), ops)

\* a key resolution that verifies the checksum of a decoded hex file before
\* it rewrites the file
ReadKeyFile_VerifiesBeforeWrite ==
    /\ pc = "read_key_file"
    /\ \/ /\ ~keyFile.exists
          /\ LoadUsbFailed(Err("Io", "NotFound"), <<"read_key_file">>)
          /\ UNCHANGED file_seen
       \/ /\ keyFile.exists
          /\ LoadUsbFailed(Err("Io", "PermissionDenied"), <<"read_key_file">>)
          /\ UNCHANGED file_seen
       \/ /\ keyFile.exists
          /\ file_seen' = Some(keyFile.content)
          /\ LET d == decode_key_bytes(keyFile.content) IN
             IF ~d.ok
             THEN LoadUsbFailed(Err("InvalidHexKey", d.reason), <<"read_key_file">>)
             ELSE IF d.converted /\ verify_checksum(config, d.key).ok
             THEN /\ KeyStage([pc |-> "fs_write", key |-> d.key, res |-> BlankResult,
                               ops |-> <<>>], <<"read_key_file">>)
                  /\ UNCHANGED usb
             ELSE LoadUsbSucceeded(d.key, <<"read_key_file">>)
    /\ UNCHANGED <<others, status_call, world, loop, root, locked_before, unlocked, locked_after, observed_keys>>

\* key_material 173-204 with load_usb_key 208 and read_key_file 18-19:
\* fs::read of the key file, decoding, and everything that needs no
\* further file-system call
ReadKeyFile ==
    /\ pc = "read_key_file"
    /\ \/ /\ ~keyFile.exists
          /\ LoadUsbFailed(Err("Io", "NotFound"), <<"read_key_file">>)
          /\ UNCHANGED file_seen
       \/ /\ keyFile.exists
          /\ LoadUsbFailed(Err("Io", "PermissionDenied"), <<"read_key_file">>)
          /\ UNCHANGED file_seen
       \/ /\ keyFile.exists
          /\ file_seen' = Some(keyFile.content)
          /\ LET d == decode_key_bytes(keyFile.content) IN
             IF ~d.ok
             THEN LoadUsbFailed(Err("InvalidHexKey", d.reason), <<"read_key_file">>)
             ELSE IF d.converted
             THEN /\ KeyStage([pc |-> "fs_write", key |-> d.key, res |-> BlankResult,
                               ops |-> <<>>], <<"read_key_file">>)
                  /\ UNCHANGED usb
             ELSE LoadUsbSucceeded(d.key, <<"read_key_file">>)
    /\ UNCHANGED <<others, status_call, world, loop, root, locked_before, unlocked, locked_after, observed_keys>>

\* load_usb_key 209-211, write_raw_key_file 78-81: create_dir_all and fs::write
WriteKeyFile ==
    /\ pc = "fs_write"
    /\ \/ /\ \E m \in FileModes :
                keyFile' = [exists |-> TRUE, content |-> key,
                            mode |-> IF keyFile.exists THEN keyFile.mode ELSE m]
          /\ pc' = "set_permissions"
          /\ trace' = Append(trace, "fs_write")
          /\ UNCHANGED <<usb, key, attemptResult>>
       \/ /\ LoadUsbFailed(Err("Io", "PermissionDenied"), <<"fs_write">>)
          /\ UNCHANGED keyFile
    /\ UNCHANGED <<others, status_call, config, locked, loop, root, locked_before, file_seen, unlocked, locked_after,
                   observed_keys>>

\* write_raw_key_file 82: fs::set_permissions(path, 0o400), then the rest of
\* key_material
SetPermissions ==
    /\ pc = "set_permissions"
    /\ \/ /\ keyFile.exists
          /\ keyFile' = [keyFile EXCEPT !.mode = ModeOwnerRead]
          /\ LoadUsbSucceeded(key, <<"set_permissions">>)
       \/ /\ keyFile.exists
          /\ LoadUsbFailed(Err("Io", "PermissionDenied"), <<"set_permissions">>)
          /\ UNCHANGED keyFile
       \/ /\ ~keyFile.exists
          /\ LoadUsbFailed(Err("Io", "NotFound"), <<"set_permissions">>)
          /\ UNCHANGED keyFile
    /\ UNCHANGED <<others, status_call, config, locked, loop, root, locked_before, file_seen, unlocked, locked_after,
                   observed_keys>>

\* perform_unlock 120: provider.load_key_tree(&root, &key)?  The provider
\* loads the key into any part of the locked group and answers Ok or Err.
LoadKeyTree ==
    /\ pc = "load_key_tree"
    /\ trace' = Append(trace, "load_key_tree")
    /\ observed_keys' = Append(observed_keys, key)
    /\ key' = <<>>
    /\ \E S \in SUBSET locked :
          /\ locked' = locked \ S
          /\ \/ /\ unlocked' = SortedList(S)
                /\ pc' = "locked_after"
                /\ UNCHANGED attemptResult
             \/ /\ attemptResult' = Err("Provider", "load_key_tree failed")
                /\ pc' = "attempt_done"
                /\ UNCHANGED unlocked
    /\ UNCHANGED <<others, status_call, config, keyFile, loop, root, locked_before, usb, file_seen, locked_after>>

\* perform_unlock 122-135: the re-query and the report
LockedAfter ==
    /\ pc = "locked_after"
    /\ trace' = Append(trace, "locked_descendants")
    /\ pc' = "attempt_done"
    /\ \/ LET list == SortedList(locked) IN
          /\ locked_after' = Some(list)
          /\ IF RootLockedAfter(list, root)
             THEN attemptResult' = Err("Provider", "still locked after load-key")
             ELSE attemptResult' = UnlockReport(call.dataset, root, unlocked, FALSE)
       \/ /\ attemptResult' = Err("Provider", "locked_descendants failed")
          /\ UNCHANGED locked_after
    /\ UNCHANGED <<others, status_call, world, loop, root, locked_before, usb, file_seen, key, unlocked,
                   observed_keys>>

\* the locals of perform_unlock
locals == <<root, locked_before, usb, file_seen, key, unlocked, locked_after, attemptResult, trace,
            observed_keys>>

\* unlock 57-59: the attempt's outcome is the call's outcome
UnlockReturn ==
    /\ pc = "attempt_done"
    /\ call.fn = "unlock"
    /\ result' = attemptResult
    /\ pc' = "done"
    /\ UNCHANGED <<others, status_call, world, locals, call, attempt, delay_ms, sleeps, prev_attempt>>

\* unlock_with_retry 73-81: success, or the last attempt has failed
RetryReturn ==
    /\ pc = "attempt_done"
    /\ call.fn = "unlock_with_retry"
    /\ RetryOutcome(config.retry, attempt, attemptResult).done
    /\ result' = RetryOutcome(config.retry, attempt, attemptResult).result
    /\ pc' = "done"
    /\ UNCHANGED <<others, status_call, world, locals, call, attempt, delay_ms, sleeps, prev_attempt>>

\* unlock_with_retry 83-92: back off, then loop
RetrySleep ==
    /\ pc = "attempt_done"
    /\ call.fn = "unlock_with_retry"
    /\ ~RetryOutcome(config.retry, attempt, attemptResult).done
    /\ sleeps' = Append(sleeps, JitterMs(config.retry, attempt, delay_ms))
    /\ delay_ms' = NextDelay(config.retry, delay_ms)
    /\ prev_attempt' = [res |-> attemptResult, keys |-> observed_keys]
    /\ pc' = "perform_unlock"
    /\ UNCHANGED <<others, status_call, world, locals, call, attempt, result>>

\* The caller takes the result; the service keeps nothing of the call
Return ==
    /\ pc = "done"
    /\ pc' = "idle"
    /\ call' = NoCall
    /\ attempt' = 0
    /\ delay_ms' = 0
    /\ root' = ""
    /\ locked_before' = None
    /\ usb' = UsbNone
    /\ file_seen' = None
    /\ key' = <<>>
    /\ unlocked' = <<>>
    /\ locked_after' = None
    /\ attemptResult' = BlankResult
    /\ result' = BlankResult
    /\ trace' = <<>>
    /\ observed_keys' = <<>>
    /\ sleeps' = <<>>
    /\ prev_attempt' = NoAttempt
    /\ UNCHANGED <<others, status_call, world>>

\* ------------------------------------------------------------------------
\* The environment
\* ------------------------------------------------------------------------
\* The environment acts while the caller is idle, asleep or about to make a
\* call to the provider or the file system.  "attempt_done" and "done" are
\* positions inside the computation that follows such a call: the steps
\* taken there read nothing of the environment.
EnvMayAct == pc \notin {"attempt_done", "done"}

\* The token is inserted or its key file replaced
EnvWriteKeyFile ==
    /\ EnvMayAct
    /\ \E c \in FileContents, m \in FileModes :
          /\ keyFile' = [exists |-> TRUE, content |-> c, mode |-> m]
          /\ keyFile' # keyFile
    /\ UNCHANGED <<others, status_call, config, locked, pc, loop, locals>>

\* The token is removed
EnvRemoveKeyFile ==
    /\ EnvMayAct
    /\ keyFile.exists
    /\ keyFile' = AbsentFile
    /\ UNCHANGED <<others, status_call, config, locked, pc, loop, locals>>

\* An operator unloads the key of a dataset of the group
EnvLock ==
    /\ EnvMayAct
    /\ \E d \in Group \ locked : locked' = locked \cup {d}
    /\ UNCHANGED <<others, status_call, config, keyFile, pc, loop, locals>>

Next ==
    \/ \E fn \in {"unlock", "unlock_with_retry"}, d \in CallDatasets, o \in UnlockOptions :
          Call(fn, d, o)
    \/ PerformUnlock
    \/ EncryptionRoot
    \/ LockedBefore
    \/ ReadKeyFile
    \/ WriteKeyFile
    \/ SetPermissions
    \/ LoadKeyTree
    \/ LockedAfter
    \/ UnlockReturn
    \/ RetryReturn
    \/ RetrySleep
    \/ Return
    \/ EnvWriteKeyFile
    \/ EnvRemoveKeyFile
    \/ EnvLock

Spec == Init /\ [][Next]_vars

\* ------------------------------------------------------------------------
\* The retry loop under every kind of RetryCfg.  LockchainService::new takes
\* the configuration as it is: LockchainConfig::validate reports
\* max_attempts = 0, base_delay_ms = 0 and max_delay_ms < base_delay_ms but
\* nothing keeps such a configuration from reaching unlock_with_retry.
\* ------------------------------------------------------------------------
RetryCfg(base, max, pct) ==
    [max_attempts |-> MaxBackoffAttempts, base_delay_ms |-> base, max_delay_ms |-> max,
     jitter_pct |-> pct]

BackoffRetryConfigs ==
    { RetryCfg(500, 5000, 0), RetryCfg(3, 4, 0), RetryCfg(5, 2, 0), RetryCfg(0, 0, 0),
      RetryCfg(500, 5000, 10), RetryCfg(3, 4, 100), RetryCfg(0, 0, 100) }

BackoffConfigs ==
    [ datasets : {<<RootDs, ChildDs>>},
      expected_sha256 : {None},
      fallback : {[enabled |-> FALSE, passphrase_salt |-> None, passphrase_xor |-> None,
                   passphrase_iters |-> PassphraseIters]},
      retry : BackoffRetryConfigs ]

BackoffOptions ==
    [ strict_usb : {FALSE}, fallback_passphrase : {None}, key_override : {None, Some(KeyC)} ]

InitBackoff ==
    /\ config \in BackoffConfigs
    /\ locked = {RootDs, ChildDs}
    /\ keyFile = AbsentFile
    /\ pc = "idle"
    /\ call = NoCall
    /\ attempt = 0
    /\ delay_ms = 0
    /\ root = ""
    /\ locked_before = None
    /\ usb = UsbNone
    /\ file_seen = None
    /\ key = <<>>
    /\ unlocked = <<>>
    /\ locked_after = None
    /\ attemptResult = BlankResult
    /\ result = BlankResult
    /\ trace = <<>>
    /\ observed_keys = <<>>
    /\ sleeps = <<>>
    /\ prev_attempt = NoAttempt
    /\ status_call = NoStatusCall
    /\ OthersIdle

NextBackoff ==
    \/ \E d \in CallDatasets, o \in BackoffOptions : Call("unlock_with_retry", d, o)
    \/ PerformUnlock
    \/ EncryptionRoot
    \/ LockedBefore
    \/ ReadKeyFile
    \/ WriteKeyFile
    \/ SetPermissions
    \/ LoadKeyTree
    \/ LockedAfter
    \/ RetryReturn
    \/ RetrySleep
    \/ Return
    \/ EnvWriteKeyFile
    \/ EnvRemoveKeyFile
    \/ EnvLock

SpecBackoff == InitBackoff /\ [][NextBackoff]_vars

\* ------------------------------------------------------------------------
\* unlock called with whatever key_override a caller passes.  The command
\* line checks that the override is 32 bytes long before it calls the
\* service (lockchain-cli main.rs 362-371); the service is a library and
\* takes UnlockOptions as they are.
\* ------------------------------------------------------------------------
ShortKey == <<1, 2, 3>>

CallerOptions ==
    [ strict_usb : BOOLEAN,
      fallback_passphrase : {None, Some(Passphrase)},
      key_override : {None, Some(KeyC), Some(ShortKey)} ]

\* unlock does not read config.retry: one RetryCfg stands for all
InitUnlock == Init /\ config.retry.max_attempts = 0

NextUnlock ==
    \/ \E d \in CallDatasets, o \in CallerOptions : Call("unlock", d, o)
    \/ PerformUnlock
    \/ EncryptionRoot
    \/ LockedBefore
    \/ ReadKeyFile
    \/ WriteKeyFile
    \/ SetPermissions
    \/ LoadKeyTree
    \/ LockedAfter
    \/ UnlockReturn
    \/ Return
    \/ EnvWriteKeyFile
    \/ EnvRemoveKeyFile
    \/ EnvLock

SpecUnlock == InitUnlock /\ [][NextUnlock]_vars

\* unlock while nothing but the service touches the key file
NextQuiet ==
    \/ \E d \in CallDatasets, o \in UnlockOptions : Call("unlock", d, o)
    \/ PerformUnlock
    \/ EncryptionRoot
    \/ LockedBefore
    \/ ReadKeyFile
    \/ WriteKeyFile
    \/ SetPermissions
    \/ LoadKeyTree
    \/ LockedAfter
    \/ UnlockReturn
    \/ Return
    \/ EnvLock

SpecQuiet == InitUnlock /\ [][NextQuiet]_vars

\* ------------------------------------------------------------------------
\* status.  The encryption root has two descendants here, and the provider
\* lists the locked datasets in one order or the other.
\* ------------------------------------------------------------------------
StatusGroup == {RootDs, ChildDs, WorkDs}

ListedForward(S) == SelectSeq(<<RootDs, ChildDs, WorkDs>>, LAMBDA d : d \in S)

ListedBackward(S) == SelectSeq(<<WorkDs, ChildDs, RootDs>>, LAMBDA d : d \in S)

\* a status that leaves the root among the descendants
StatusOf_KeepsRoot(dataset, r, list) ==
    [BlankStatus EXCEPT !.ok = TRUE, !.kind = "Ok", !.dataset = dataset,
                        !.encryption_root = r,
                        !.root_locked = \E i \in 1..Len(list) : list[i] = r,
                        !.locked_descendants = list]

\* service.rs status 146-154: root_locked and the list without the root
StatusOf(dataset, r, list) ==
    [BlankStatus EXCEPT !.ok = TRUE, !.kind = "Ok", !.dataset = dataset,
                        !.encryption_root = r,
                        !.root_locked = \E i \in 1..Len(list) : list[i] = r,
                        !.locked_descendants = SelectSeq(list, LAMBDA ds : ds # r)]

\* everything but status_call and the storage engine
unlock_state == <<pc, loop, locals>>

\* service.rs status 139-142: entry and policy check
Status(dataset) ==
    /\ pc = "idle"
    /\ status_call.pc = "idle"
    /\ status_call' =
          IF ~contains_dataset(config, dataset)
          THEN [NoStatusCall EXCEPT !.pc = "done", !.dataset = dataset,
                                    !.result = StatusErr("DatasetNotConfigured", dataset)]
          ELSE [NoStatusCall EXCEPT !.pc = "encryption_root", !.dataset = dataset]
    /\ UNCHANGED <<world, unlock_state, others>>

\* status 144: provider.encryption_root(dataset)?
StatusEncryptionRoot ==
    /\ status_call.pc = "encryption_root"
    /\ \/ status_call' =
             [status_call EXCEPT !.pc = "locked_descendants", !.root = RootDs,
                                 !.trace = Append(@, "encryption_root")]
       \/ status_call' =
             [status_call EXCEPT !.pc = "done", !.trace = Append(@, "encryption_root"),
                                 !.result = StatusErr("Provider", "encryption_root failed")]
    /\ UNCHANGED <<world, unlock_state, others>>

\* status 145-154: provider.locked_descendants(&root)? and the answer
StatusLockedDescendants ==
    /\ status_call.pc = "locked_descendants"
    /\ \/ \E list \in {ListedForward(locked), ListedBackward(locked)} :
             status_call' =
                [status_call EXCEPT !.pc = "done", !.locked = Some(list),
                                    !.trace = Append(@, "locked_descendants"),
                                    !.result = StatusOf(status_call.dataset, status_call.root,
                                                        list)]
       \/ status_call' =
             [status_call EXCEPT !.pc = "done", !.trace = Append(@, "locked_descendants"),
                                 !.result = StatusErr("Provider", "locked_descendants failed")]
    /\ UNCHANGED <<world, unlock_state, others>>

\* The caller takes the status
StatusReturn ==
    /\ status_call.pc = "done"
    /\ status_call' = NoStatusCall
    /\ UNCHANGED <<world, unlock_state, others>>

\* An operator loads or unloads the key of a dataset under the root
EnvLoadKey ==
    /\ \E d \in locked : locked' = locked \ {d}
    /\ UNCHANGED <<config, keyFile, unlock_state, status_call, others>>

EnvUnloadKey ==
    /\ \E d \in StatusGroup \ locked : locked' = locked \cup {d}
    /\ UNCHANGED <<config, keyFile, unlock_state, status_call, others>>

InitStatus ==
    /\ config \in Configs
    /\ config.retry.max_attempts = 0
    /\ locked \in SUBSET StatusGroup
    /\ keyFile \in {AbsentFile} \cup [exists : {TRUE}, content : FileContents, mode : FileModes]
    /\ pc = "idle"
    /\ call = NoCall
    /\ attempt = 0
    /\ delay_ms = 0
    /\ root = ""
    /\ locked_before = None
    /\ usb = UsbNone
    /\ file_seen = None
    /\ key = <<>>
    /\ unlocked = <<>>
    /\ locked_after = None
    /\ attemptResult = BlankResult
    /\ result = BlankResult
    /\ trace = <<>>
    /\ observed_keys = <<>>
    /\ sleeps = <<>>
    /\ prev_attempt = NoAttempt
    /\ status_call = NoStatusCall
    /\ OthersIdle

NextStatus ==
    \/ \E d \in CallDatasets : Status(d)
    \/ StatusEncryptionRoot
    \/ StatusLockedDescendants
    \/ StatusReturn
    \/ EnvWriteKeyFile
    \/ EnvRemoveKeyFile
    \/ EnvLoadKey
    \/ EnvUnloadKey

SpecStatus == InitStatus /\ [][NextStatus]_vars

\* ------------------------------------------------------------------------
\* lockchain-zfs: the provider that runs the zfs and zpool commands
\* (system.rs, command.rs, parse.rs).  A line of command output is the
\* sequence of its words, a diagnostic is a sequence of words; quotes and
\* punctuation are left out of the words.
\* ------------------------------------------------------------------------
Output(status, stdout, stderr) == [status |-> status, stdout |-> stdout, stderr |-> stderr]

\* str::to_ascii_lowercase, on the words the commands print
LowerWord(w) ==
    CASE w = "ONLINE" -> "online"
      [] w = "DEGRADED" -> "degraded"
      [] w = "Key" -> "key"
      [] w = "Incorrect" -> "incorrect"
      [] OTHER -> w

ToLowerWords(text) == [i \in DOMAIN text |-> LowerWord(text[i])]

\* str::contains
Contains(text, phrase) ==
    \E k \in 0..(Len(text) - Len(phrase)) : \A j \in 1..Len(phrase) : text[k + j] = phrase[j]

\* parse.rs parse_tabular_pairs: a line of two or more fields is a pair of
\* its first field and the rest, any other line is dropped
parse_tabular_pairs(stdout) ==
    LET kept == SelectSeq(stdout, LAMBDA line : Len(line) >= 2)
    IN [i \in DOMAIN kept |-> [name |-> kept[i][1], value |-> Tail(kept[i])]]

\* parse.rs pool_from_dataset: the text before the first '/', None when empty
pool_from_dataset(ds) ==
    CASE ds \in {RootDs, ChildDs, WorkDs, OtherDs} -> [some |-> TRUE, val |-> "tank"]
      [] ds = VaultDs -> [some |-> TRUE, val |-> "vault"]
      [] OTHER -> [some |-> FALSE, val |-> ""]

\* system.rs 260-264 and 170-172: stderr when it is not blank, else stdout
Diagnostic(out) == IF out.stderr # <<>> THEN out.stderr ELSE Flatten(out.stdout)

\* system.rs classify_cli_error
classify_cli_error(out) ==
    LET diagnostic_lower == ToLowerWords(Diagnostic(out)) IN
    IF \/ Contains(diagnostic_lower, <<"dataset", "does", "not", "exist">>)
       \/ Contains(diagnostic_lower, <<"cannot", "open">>)
    THEN ProviderErr("InvalidConfig", "reported missing dataset")
    ELSE IF \/ Contains(diagnostic_lower, <<"no", "such", "pool">>)
            \/ Contains(diagnostic_lower, <<"pool", "does", "not", "exist">>)
    THEN ProviderErr("InvalidConfig", "reported missing pool")
    ELSE ProviderErr("Provider", "exited with a non-zero code")

\* system.rs ensure_pool_ready, after the zpool list command has run
ensure_pool_ready(pool, out) ==
    IF out.status # 0 THEN classify_cli_error(out)
    ELSE LET pairs == parse_tabular_pairs(out.stdout)
             seen == {i \in DOMAIN pairs : pairs[i].name = pool}
         IN IF \E i \in seen : ToLowerWords(pairs[i].value) # <<"online">>
            THEN ProviderErr("Provider", "pool is not healthy")
            ELSE IF seen = {}
            THEN ProviderErr("Provider", "pool not reported by zpool list output")
            ELSE ProviderOk(<<>>)

\* system.rs get_property 250-253: the trimmed standard output
PropertyValue(out) == IF Flatten(out.stdout) = <<>> THEN "" ELSE Flatten(out.stdout)[1]

\* system.rs parse_keystatus
\* a reading of the key status that counts only the words it knows as locked
parse_keystatus_UnknownIsAvailable(value) ==
    CASE value \in {"unavailable", "absent", "missing"} -> [state |-> "Unavailable", text |-> ""]
      [] OTHER -> [state |-> "Available", text |-> ""]

parse_keystatus(value) ==
    CASE value = "available" -> [state |-> "Available", text |-> ""]
      [] value \in {"unavailable", "absent", "missing"} -> [state |-> "Unavailable", text |-> ""]
      [] OTHER -> [state |-> "Unknown", text |-> value]

\* What the storage engine knows: the datasets under tank/secure share its
\* key, the others are not encrypted
EncryptionRootOf(ds) ==
    IF ds \in StatusGroup THEN RootDs ELSE IF ds = NestedDs THEN NestedDs ELSE "-"

KeystatusOf(ds, lk) ==
    IF ds \in lk THEN "unavailable" ELSE IF ds \in StatusGroup THEN "available" ELSE "-"

\* What the commands can answer
ZpoolListOutputs(pool) ==
    { Output(0, << <<pool, "ONLINE">> >>, <<>>),
      Output(0, << <<pool, "DEGRADED">> >>, <<>>),
      Output(0, <<>>, <<>>),
      Output(1, <<>>, <<"cannot", "open", pool, "no", "such", "pool">>) }

ZfsGetOutputs(ds, value) ==
    { Output(0, << <<value>> >>, <<>>),
      Output(1, <<>>, <<"cannot", "open", ds, "dataset", "does", "not", "exist">>),
      Output(1, <<>>, <<>>) }

\* a provider that answers with what it has collected when a step fails
ProviderFailed_ReturnsPartial(c, err) ==
    [c EXCEPT !.pc = "done",
              !.result = ProviderOk(IF c.fn = "describe_datasets" THEN c.snapshot
                                    ELSE c.unlocked)]

\* the ? operator of system.rs: the first error ends the call
ProviderFailed(c, err) == [c EXCEPT !.pc = "done", !.result = err]

\* describe_datasets 371-381 and 391: the head of the loop over the datasets
\* and the return
DescribeAdvance(c) ==
    IF c.i > Len(c.datasets)
    THEN [c EXCEPT !.pc = "done", !.result = ProviderOk(c.snapshot)]
    ELSE LET pool == pool_from_dataset(c.datasets[c.i]) IN
         IF ~pool.some
         THEN ProviderFailed(c, ProviderErr("InvalidConfig",
                                            "dataset does not map to a valid pool name"))
         ELSE IF pool.val \notin c.checked_pools
         THEN [c EXCEPT !.pc = "zpool_list", !.pool = pool.val,
                        !.checked_pools = @ \cup {pool.val},
                        !.after_pool = "get_encryptionroot"]
         ELSE [c EXCEPT !.pc = "get_encryptionroot"]

\* everything but provider_call and the storage engine
beside_provider == <<config, keyFile, status_call, unlock_state, aside>>

\* service.rs list_keys 158-161: provider.describe_datasets(policy.datasets)
ListKeys ==
    /\ pc = "idle"
    /\ provider_call.pc = "idle"
    /\ provider_call' =
          DescribeAdvance([NoProviderCall EXCEPT !.fn = "describe_datasets",
                                                 !.datasets = config.datasets, !.i = 1])
    /\ UNCHANGED <<locked, beside_provider>>

\* ensure_pool_ready 211-236: zpool list -H -o name,health <pool>
ZpoolList ==
    /\ provider_call.pc = "zpool_list"
    /\ \E out \in ZpoolListOutputs(provider_call.pool) :
          LET ready == ensure_pool_ready(provider_call.pool, out) IN
          provider_call' =
             IF ~ready.ok THEN ProviderFailed(provider_call, ready)
             ELSE [provider_call EXCEPT !.pc = provider_call.after_pool]
    /\ UNCHANGED <<locked, beside_provider>>

\* describe_datasets 383: zfs get -H -o value encryptionroot <dataset>
DescribeEncryptionRoot ==
    /\ provider_call.fn = "describe_datasets"
    /\ provider_call.pc = "get_encryptionroot"
    /\ LET ds == provider_call.datasets[provider_call.i] IN
       \E out \in ZfsGetOutputs(ds, EncryptionRootOf(ds)) :
          provider_call' =
             IF out.status # 0 THEN ProviderFailed(provider_call, classify_cli_error(out))
             ELSE [provider_call EXCEPT !.pc = "get_keystatus",
                                        !.encryption_root = PropertyValue(out)]
    /\ UNCHANGED <<locked, beside_provider>>

\* describe_datasets 384-389: zfs get -H -o value keystatus <dataset> and
\* the push of the descriptor
DescribeKeystatus ==
    /\ provider_call.fn = "describe_datasets"
    /\ provider_call.pc = "get_keystatus"
    /\ LET ds == provider_call.datasets[provider_call.i] IN
       \E out \in ZfsGetOutputs(ds, KeystatusOf(ds, locked)) :
          provider_call' =
             IF out.status # 0 THEN ProviderFailed(provider_call, classify_cli_error(out))
             ELSE DescribeAdvance(
                     [provider_call EXCEPT
                         !.snapshot = Append(@, [dataset |-> ds,
                                                 encryption_root |-> provider_call.encryption_root,
                                                 state |-> parse_keystatus(PropertyValue(out))]),
                         !.i = @ + 1])
    /\ UNCHANGED <<locked, beside_provider>>

\* The caller of list_keys takes the snapshot
ListKeysReturn ==
    /\ provider_call.fn = "describe_datasets"
    /\ provider_call.pc = "done"
    /\ provider_call' = NoProviderCall
    /\ UNCHANGED <<locked, beside_provider>>

\* a key load that does not know the "Key already loaded" answer
load_key_NothingTolerated(out) ==
    IF out.status # 0 THEN classify_cli_error(out) ELSE ProviderOk(<<>>)

\* system.rs load_key 256-275, after the load-key command has run
load_key(out) ==
    IF out.status # 0
    THEN IF Contains(Diagnostic(out), <<"Key", "already", "loaded">>)
         THEN ProviderOk(<<>>)
         ELSE classify_cli_error(out)
    ELSE ProviderOk(<<>>)

\* a listing left in the order the command printed it
SortNames_AsListed(names) == names

\* Vec::sort_unstable on dataset names
SortNames(names) == SelectSeq(DatasetOrder, LAMBDA d : \E i \in DOMAIN names : names[i] = d)

\* locked_descendants 310-328: the names under the same encryption root
\* whose key is not available, sorted
LockedNames(same_root, pairs) ==
    LET listed == SelectSeq(pairs, LAMBDA p : /\ p.name \in same_root
                                              /\ parse_keystatus(p.value[1]).state # "Available")
    IN SortNames([i \in DOMAIN listed |-> listed[i].name])

\* zfs load-key -L prompt <dataset> with the key on standard input: what the
\* command answers and what it leaves locked.  A key that is accepted opens
\* the dataset and any of the datasets that share its key.
LoadKeyRuns(ds, lk) ==
    IF ds \in lk
    THEN { [out |-> Output(0, <<>>, <<>>), locked |-> lk \ ({ds} \cup S)] :
              S \in SUBSET (lk \ {ds}) }
         \cup { [out |-> Output(1, <<>>, <<"Key", "load", "error:", "Incorrect", "key",
                                           "provided", "for", ds>>),
                 locked |-> lk] }
    ELSE { [out |-> Output(1, <<>>, <<"Key", "load", "error:", "Key", "already", "loaded",
                                      "for", ds>>),
            locked |-> lk],
           [out |-> Output(1, << <<"Key", "load", "error:", "Key", "already", "loaded",
                                   "for", ds>> >>, <<>>),
            locked |-> lk],
           [out |-> Output(1, <<>>, <<>>), locked |-> lk] }

\* the datasets under the root as the commands print them, and the other
\* way round
UnderRootForward == <<RootDs, ChildDs, NestedDs, WorkDs>>

UnderRootBackward == <<WorkDs, NestedDs, ChildDs, RootDs>>

\* what keystatus may read for a dataset whose key is not loaded
LockedWords == {"unavailable", "absent", "missing", "-", "sealed"}

\* the keystatus column: the nested encryption root is never unlocked here
KeystatusWord(ds, lk, word) ==
    IF ds = NestedDs THEN "unavailable"
    ELSE IF ds \in lk THEN word ELSE KeystatusOf(ds, lk)

\* zfs list -H -r -o name,encryptionroot <root>
ZfsListOutputs(r) ==
    { Output(0, [i \in DOMAIN UnderRootForward |->
                    <<UnderRootForward[i], EncryptionRootOf(UnderRootForward[i])>>], <<>>),
      Output(1, <<>>, <<"cannot", "open", r, "dataset", "does", "not", "exist">>) }

\* zfs get -H -r -o name,value keystatus <root>: the datasets under the root
\* in one order or the other
ZfsKeystatusOutputs(r, lk) ==
    { Output(0, [i \in DOMAIN order |-> <<order[i], KeystatusWord(order[i], lk, word)>>], <<>>) :
         order \in {UnderRootForward, UnderRootBackward}, word \in LockedWords }
    \cup { Output(1, <<>>, <<>>) }

\* ensure_dataset_pool_ready 239-247: the pool of the dataset, then zpool list
EnsureDatasetPoolReady(c, ds, after) ==
    LET pool == pool_from_dataset(ds) IN
    IF ~pool.some
    THEN ProviderFailed(c, ProviderErr("InvalidConfig",
                                       "dataset does not map to a valid pool name"))
    ELSE [c EXCEPT !.pc = "zpool_list", !.pool = pool.val, !.after_pool = after]

\* locked_descendants 306: entry
LockedDescendantsOf(c, purpose) ==
    EnsureDatasetPoolReady([c EXCEPT !.after_list = purpose], c.root, "zfs_list")

\* load_key_tree 347-363: what is still locked after the loads
TreeOutcome(c, stubborn) ==
    IF \E i \in DOMAIN stubborn : stubborn[i] = c.root
    THEN ProviderFailed(c, ProviderErr("Provider", "encryption root remained locked after load-key"))
    ELSE IF SelectSeq(stubborn, LAMBDA ds : ds # c.root) # <<>>
    THEN ProviderFailed(c, ProviderErr("Provider", "descendants still locked after retries"))
    ELSE [c EXCEPT !.pc = "done", !.result = ProviderOk(c.unlocked)]

\* perform_unlock 120 with the system provider: load_key_tree 333, entry
SysLoadKeyTree ==
    /\ pc = "load_key_tree"
    /\ provider_call.pc = "idle"
    /\ trace' = Append(trace, "load_key_tree")
    /\ observed_keys' = Append(observed_keys, key)
    /\ key' = <<>>
    /\ pc' = "in_load_key_tree"
    /\ provider_call' =
          EnsureDatasetPoolReady([NoProviderCall EXCEPT !.fn = "load_key_tree", !.root = root,
                                                        !.key = key],
                                 root, "load_key_root")
    /\ UNCHANGED <<config, locked, keyFile, status_call, loop, root, locked_before, usb,
                   file_seen, unlocked, locked_after, attemptResult, aside>>

\* load_key_tree 334-335: load_key(root, key) and the list that starts with
\* the root, then the first locked_descendants
LoadKeyRoot ==
    /\ provider_call.pc = "load_key_root"
    /\ \E run \in LoadKeyRuns(provider_call.root, locked) :
          /\ locked' = run.locked
          /\ LET c == [provider_call EXCEPT !.loads = Append(@, provider_call.root),
                                             !.answer = run.out] IN
             provider_call' =
                IF ~load_key(run.out).ok THEN ProviderFailed(c, load_key(run.out))
                ELSE LockedDescendantsOf([c EXCEPT !.unlocked = <<c.root>>], "pending")
    /\ UNCHANGED beside_provider

\* locked_descendants 308-314: zfs list and the names under the same root
ZfsList ==
    /\ provider_call.pc = "zfs_list"
    /\ \E out \in ZfsListOutputs(provider_call.root) :
          provider_call' =
             IF out.status # 0 THEN ProviderFailed(provider_call, classify_cli_error(out))
             ELSE LET pairs == parse_tabular_pairs(out.stdout) IN
                  [provider_call EXCEPT
                      !.pc = "zfs_keystatus",
                      !.same_root = {pairs[i].name : i \in {j \in DOMAIN pairs :
                                        pairs[j].value = <<provider_call.root>>}}]
    /\ UNCHANGED <<locked, beside_provider>>

\* locked_descendants 316-328: zfs get keystatus; then load_key_tree 337-341
\* (the pending datasets) or 347-363 (the final check)
ZfsKeystatus ==
    /\ provider_call.pc = "zfs_keystatus"
    /\ \E out \in ZfsKeystatusOutputs(provider_call.root, locked) :
          provider_call' =
             IF out.status # 0 THEN ProviderFailed(provider_call, classify_cli_error(out))
             ELSE LET list == LockedNames(provider_call.same_root,
                                          parse_tabular_pairs(out.stdout))
                      pending == SelectSeq(list, LAMBDA ds : ds # provider_call.root)
                  IN IF provider_call.after_list = "result"
                     THEN [provider_call EXCEPT !.pc = "done", !.result = ProviderOk(list)]
                     ELSE IF provider_call.after_list = "stubborn"
                     THEN TreeOutcome(provider_call, list)
                     ELSE IF pending = <<>>
                     THEN LockedDescendantsOf(provider_call, "stubborn")
                     ELSE [provider_call EXCEPT !.pc = "load_key_pending",
                                                !.pending = pending, !.i = 1]
    /\ UNCHANGED <<locked, beside_provider>>

\* a load of the pending datasets that, when one of them fails, unloads the
\* keys the call has loaded
LoadKeyPending_RollsBack ==
    /\ provider_call.pc = "load_key_pending"
    /\ LET ds == provider_call.pending[provider_call.i] IN
       \E run \in LoadKeyRuns(ds, locked) :
          LET c == [provider_call EXCEPT !.loads = Append(@, ds), !.answer = run.out] IN
          IF ~load_key(run.out).ok
          THEN /\ locked' = run.locked \cup {c.unlocked[k] : k \in DOMAIN c.unlocked}
               /\ provider_call' = ProviderFailed(c, load_key(run.out))
          ELSE /\ locked' = run.locked
               /\ provider_call' =
                     IF c.i = Len(c.pending)
                     THEN LockedDescendantsOf([c EXCEPT !.unlocked = Append(@, ds)], "stubborn")
                     ELSE [c EXCEPT !.unlocked = Append(@, ds), !.i = @ + 1]
    /\ UNCHANGED beside_provider

\* load_key_tree 342-345: load_key for the next pending dataset
LoadKeyPending ==
    /\ provider_call.pc = "load_key_pending"
    /\ LET ds == provider_call.pending[provider_call.i] IN
       \E run \in LoadKeyRuns(ds, locked) :
          /\ locked' = run.locked
          /\ LET c == [provider_call EXCEPT !.loads = Append(@, ds), !.answer = run.out] IN
             provider_call' =
                IF ~load_key(run.out).ok THEN ProviderFailed(c, load_key(run.out))
                ELSE IF c.i = Len(c.pending)
                THEN LockedDescendantsOf([c EXCEPT !.unlocked = Append(@, ds)], "stubborn")
                ELSE [c EXCEPT !.unlocked = Append(@, ds), !.i = @ + 1]
    /\ UNCHANGED beside_provider

\* perform_unlock 120: the ? on what load_key_tree returned
SysLoadKeyTreeReturn ==
    /\ pc = "in_load_key_tree"
    /\ provider_call.pc = "done"
    /\ IF provider_call.result.ok
       THEN /\ unlocked' = provider_call.result.list
            /\ pc' = "locked_after"
            /\ UNCHANGED attemptResult
       ELSE /\ attemptResult' = Err(provider_call.result.kind, provider_call.result.detail)
            /\ pc' = "attempt_done"
            /\ UNCHANGED unlocked
    /\ provider_call' = NoProviderCall
    /\ UNCHANGED <<config, locked, keyFile, status_call, loop, root, locked_before, usb,
                   file_seen, key, locked_after, trace, observed_keys, aside>>

\* The service with the system provider: unlock with a key the caller
\* supplies, and list_keys, over policies of several shapes
SystemConfigs ==
    [ datasets : {<<RootDs, ChildDs>>, <<WorkDs, VaultDs, RootDs, OtherDs>>, <<ChildDs, BadDs>>},
      expected_sha256 : {None},
      fallback : {[enabled |-> FALSE, passphrase_salt |-> None, passphrase_xor |-> None,
                   passphrase_iters |-> PassphraseIters]},
      retry : {[max_attempts |-> 0, base_delay_ms |-> 0, max_delay_ms |-> 0, jitter_pct |-> 0]} ]

SystemOptions ==
    [ strict_usb : {FALSE}, fallback_passphrase : {None}, key_override : {Some(KeyC)} ]

\* before any call: any part of the root's group locked, no key file
SystemStart ==
    /\ locked \in SUBSET StatusGroup
    /\ keyFile = AbsentFile
    /\ pc = "idle"
    /\ call = NoCall
    /\ attempt = 0
    /\ delay_ms = 0
    /\ root = ""
    /\ locked_before = None
    /\ usb = UsbNone
    /\ file_seen = None
    /\ key = <<>>
    /\ unlocked = <<>>
    /\ locked_after = None
    /\ attemptResult = BlankResult
    /\ result = BlankResult
    /\ trace = <<>>
    /\ observed_keys = <<>>
    /\ sleeps = <<>>
    /\ prev_attempt = NoAttempt
    /\ status_call = NoStatusCall
    /\ OthersIdle

InitSystem == config \in SystemConfigs /\ SystemStart

NextSystem ==
    \/ \E o \in SystemOptions : Call("unlock", ChildDs, o)
    \/ PerformUnlock
    \/ EncryptionRoot
    \/ LockedBefore
    \/ SysLoadKeyTree
    \/ ZpoolList
    \/ LoadKeyRoot
    \/ ZfsList
    \/ ZfsKeystatus
    \/ LoadKeyPending
    \/ SysLoadKeyTreeReturn
    \/ LockedAfter
    \/ UnlockReturn
    \/ Return
    \/ ListKeys
    \/ DescribeEncryptionRoot
    \/ DescribeKeystatus
    \/ ListKeysReturn
    \/ EnvLoadKey
    \/ EnvUnloadKey

SpecSystem == InitSystem /\ [][NextSystem]_vars

\* locked_descendants 305-306 called on its own
LockedDescendants(r) ==
    /\ pc = "idle"
    /\ provider_call.pc = "idle"
    /\ provider_call' =
          LockedDescendantsOf([NoProviderCall EXCEPT !.fn = "locked_descendants", !.root = r],
                              "result")
    /\ UNCHANGED <<locked, beside_provider>>

\* the caller takes the list or the error
LockedDescendantsReturn ==
    /\ provider_call.fn = "locked_descendants"
    /\ provider_call.pc = "done"
    /\ provider_call' = NoProviderCall
    /\ UNCHANGED <<locked, beside_provider>>

NextLocked ==
    \/ LockedDescendants(RootDs)
    \/ ZpoolList
    \/ ZfsList
    \/ ZfsKeystatus
    \/ LockedDescendantsReturn
    \/ EnvLoadKey
    \/ EnvUnloadKey

SpecLocked == InitSystem /\ [][NextLocked]_vars

\* zfs get -H -o value encryptionroot <dataset>: the value, a failure of
\* the command, or, for a dataset the engine does not have, its complaint
ZfsGetRootOutputs(ds) ==
    IF ds \in StatusGroup \cup {NestedDs}
    THEN { Output(0, << <<EncryptionRootOf(ds)>> >>, <<>>),
           Output(1, <<>>, <<>>),
           Output(1, <<>>, <<"internal", "error:", "out", "of", "memory">>) }
    ELSE { Output(1, <<>>, <<"cannot", "open", ds, "dataset", "does", "not", "exist">>) }

\* a root resolution that reports every failure of the command as a
\* provider error
encryption_root_AlwaysProvider(out) ==
    IF out.status # 0 THEN ProviderErr("Provider", "exited with a non-zero code")
    ELSE ProviderOk(<<PropertyValue(out)>>)

\* system.rs encryption_root 298-302 with get_property 250-253 and
\* run_checked_zfs, after the command has run
encryption_root(out) ==
    IF out.status # 0 THEN classify_cli_error(out) ELSE ProviderOk(<<PropertyValue(out)>>)

\* perform_unlock 108 with the system provider
SysEncryptionRoot ==
    /\ pc = "encryption_root"
    /\ trace' = Append(trace, "encryption_root")
    /\ \E out \in ZfsGetRootOutputs(call.dataset) :
          LET r == encryption_root(out) IN
          IF r.ok
          THEN /\ root' = r.list[1]
               /\ pc' = "locked_before"
               /\ UNCHANGED attemptResult
          ELSE /\ attemptResult' = Err(r.kind, r.detail)
               /\ pc' = "attempt_done"
               /\ UNCHANGED root
    /\ UNCHANGED <<others, status_call, world, loop, locked_before, usb, file_seen, key, unlocked,
                   locked_after, observed_keys>>

\* status 144 with the system provider
SysStatusEncryptionRoot ==
    /\ status_call.pc = "encryption_root"
    /\ \E out \in ZfsGetRootOutputs(status_call.dataset) :
          LET r == encryption_root(out) IN
          status_call' =
             IF r.ok
             THEN [status_call EXCEPT !.pc = "locked_descendants", !.root = r.list[1],
                                      !.trace = Append(@, "encryption_root")]
             ELSE [status_call EXCEPT !.pc = "done", !.trace = Append(@, "encryption_root"),
                                      !.result = StatusErr(r.kind, r.detail)]
    /\ UNCHANGED <<world, unlock_state, others>>

\* a policy that names a dataset the engine does not have
RootConfigs ==
    [ datasets : {<<RootDs, ChildDs, MissingDs>>},
      expected_sha256 : {None},
      fallback : {[enabled |-> FALSE, passphrase_salt |-> None, passphrase_xor |-> None,
                   passphrase_iters |-> PassphraseIters]},
      retry : {[max_attempts |-> 0, base_delay_ms |-> 0, max_delay_ms |-> 0, jitter_pct |-> 0]} ]

InitRoot == config \in RootConfigs /\ SystemStart

NextRoot ==
    \/ \E d \in {ChildDs, MissingDs}, o \in SystemOptions : Call("unlock", d, o)
    \/ PerformUnlock
    \/ SysEncryptionRoot
    \/ LockedBefore
    \/ SysLoadKeyTree
    \/ ZpoolList
    \/ LoadKeyRoot
    \/ ZfsList
    \/ ZfsKeystatus
    \/ LoadKeyPending
    \/ SysLoadKeyTreeReturn
    \/ LockedAfter
    \/ UnlockReturn
    \/ Return
    \/ \E d \in {ChildDs, MissingDs} : Status(d)
    \/ SysStatusEncryptionRoot
    \/ StatusLockedDescendants
    \/ StatusReturn
    \/ EnvLoadKey
    \/ EnvUnloadKey

SpecRoot == InitRoot /\ [][NextRoot]_vars

\* unlock and unlock_with_retry over the system provider, with a retry
\* policy that allows a second attempt
PartialConfigs ==
    [ datasets : {<<RootDs, ChildDs>>},
      expected_sha256 : {None},
      fallback : {[enabled |-> FALSE, passphrase_salt |-> None, passphrase_xor |-> None,
                   passphrase_iters |-> PassphraseIters]},
      retry : {[max_attempts |-> MaxRetryAttempts, base_delay_ms |-> 500,
                max_delay_ms |-> 5000, jitter_pct |-> 0]} ]

InitPartial == config \in PartialConfigs /\ SystemStart

NextPartial ==
    \/ \E fn \in {"unlock", "unlock_with_retry"}, o \in SystemOptions : Call(fn, ChildDs, o)
    \/ PerformUnlock
    \/ EncryptionRoot
    \/ LockedBefore
    \/ SysLoadKeyTree
    \/ ZpoolList
    \/ LoadKeyRoot
    \/ ZfsList
    \/ ZfsKeystatus
    \/ LoadKeyPending
    \/ SysLoadKeyTreeReturn
    \/ LockedAfter
    \/ UnlockReturn
    \/ RetryReturn
    \/ RetrySleep
    \/ Return
    \/ EnvLoadKey
    \/ EnvUnloadKey

SpecPartial == InitPartial /\ [][NextPartial]_vars

\* ------------------------------------------------------------------------
\* The fallback key on its own: provisioning stores the masked key, the
\* operator may edit the stored material, derive_fallback_key unmasks it
\* ------------------------------------------------------------------------
\* the rounds provisioning runs and stores (250_000)
ProvisionIters == 250000

\* the salt provisioning draws is 16 bytes
SaltLen == 16

Salts == {Repeat(161, SaltLen), [i \in 1..SaltLen |-> (7 * i) % 256]}

\* keys provisioning may have drawn
ProvisionedKeys == {KeyA, KeyF}

\* "", "pw", "pwd"
FallbackPassphrases == {<<>>, Passphrase, <<112, 119, 100>>}

\* the passphrases given to provisioning
ProvisionPassphrases == {None, Some(<<>>), Some(Passphrase)}

\* provisioning.rs configure_fallback_passphrase 467-501; salt is what OsRng
\* filled in
configure_fallback_passphrase(fallback, passphrase, key_material, salt) ==
    IF passphrase.some
    THEN LET derived == Pbkdf2(passphrase.val, salt, ProvisionIters, Len(key_material))
             xor == [i \in 1..Len(key_material) |-> XorByte(key_material[i], derived[i])]
         IN [enabled |-> TRUE, passphrase_salt |-> Some(HexEncode(salt)),
             passphrase_xor |-> Some(HexEncode(xor)), passphrase_iters |-> ProvisionIters]
    ELSE [fallback EXCEPT !.enabled = FALSE, !.passphrase_salt = None,
                          !.passphrase_xor = None]

\* how often the stored material is edited by hand
MaxEdits == 2

\* What an edit of the configuration file does to the fallback section.
\* "keeps" says whether the stored material still means what provisioning
\* stored.
UpperHex(opt) ==
    IF opt.some THEN Some([i \in DOMAIN opt.val |-> ToAsciiUpper(opt.val[i])]) ELSE opt

DropLast(opt, n) ==
    IF opt.some /\ Len(opt.val) >= n THEN Some(SubSeq(opt.val, 1, Len(opt.val) - n)) ELSE opt

Edits ==
    {"toggle", "upper", "no_salt", "no_xor", "odd_salt", "bad_salt", "odd_xor", "bad_xor",
     "short_xor", "long_xor", "empty_xor", "iters_0", "iters_1"}

Edited(fallback, how) ==
    CASE how = "toggle" -> [fallback EXCEPT !.enabled = ~@]
      [] how = "upper" -> [fallback EXCEPT !.passphrase_salt = UpperHex(@),
                                           !.passphrase_xor = UpperHex(@)]
      [] how = "no_salt" -> [fallback EXCEPT !.passphrase_salt = None]
      [] how = "no_xor" -> [fallback EXCEPT !.passphrase_xor = None]
      [] how = "odd_salt" -> [fallback EXCEPT !.passphrase_salt = DropLast(@, 1)]
      [] how = "bad_salt" -> [fallback EXCEPT !.passphrase_salt = Some(<<122, 122>>)]
      [] how = "odd_xor" -> [fallback EXCEPT !.passphrase_xor = DropLast(@, 1)]
      [] how = "bad_xor" -> [fallback EXCEPT !.passphrase_xor =
                                Some([i \in 1..HexLen |-> IF i = 7 THEN 103 ELSE 48])]
      [] how = "short_xor" -> [fallback EXCEPT !.passphrase_xor = DropLast(@, 2)]
      [] how = "long_xor" -> [fallback EXCEPT !.passphrase_xor =
                                 IF @.some THEN Some(@.val \o <<48, 48>>) ELSE @]
      [] how = "empty_xor" -> [fallback EXCEPT !.passphrase_xor = Some(<<>>)]
      [] how = "iters_0" -> [fallback EXCEPT !.passphrase_iters = 0]
      [] how = "iters_1" -> [fallback EXCEPT !.passphrase_iters = 1]

beside_fallback ==
    <<locked, keyFile, status_call, unlock_state, provider_call, codec_call, keyDir,
      write_call, callers,
      drill_call,
      health,
      watcher,
      forge_call>>

\* provisioning.rs 162-167: provisioning with or without a passphrase,
\* before anything is edited or derived
Provision(passphrase, key_material, salt) ==
    /\ fallback_call.pc = "idle"
    /\ fallback_call.edits = 0
    /\ ~fallback_call.earlier.some
    /\ config' = [config EXCEPT !.fallback =
                      configure_fallback_passphrase(@, passphrase, key_material, salt)]
    /\ fallback_call' =
          [fallback_call EXCEPT !.provisioned =
              IF passphrase.some
              THEN [some |-> TRUE, passphrase |-> passphrase.val, key |-> key_material]
              ELSE NoFallbackCall.provisioned]
    /\ UNCHANGED beside_fallback

\* the configuration file is edited and loaded again (config.rs Fallback)
EditFallback(how) ==
    /\ fallback_call.pc = "idle"
    /\ fallback_call.edits < MaxEdits
    /\ ~fallback_call.earlier.some
    /\ Edited(config.fallback, how) # config.fallback
    /\ config' = [config EXCEPT !.fallback = Edited(@, how)]
    /\ fallback_call' =
          [fallback_call EXCEPT !.edits = @ + 1,
                                !.provisioned = IF how \in {"toggle", "upper"} THEN @
                                                ELSE NoFallbackCall.provisioned]
    /\ UNCHANGED beside_fallback

\* between two derivations the fallback is switched off or on, which is no
\* input of the derivation
ToggleFallback ==
    /\ fallback_call.pc = "idle"
    /\ fallback_call.earlier.some
    /\ config' = [config EXCEPT !.fallback = Edited(@, "toggle")]
    /\ UNCHANGED <<fallback_call, beside_fallback>>

\* service.rs derive_fallback_key 233-267 on the configuration as it is
DeriveFallbackKey(passphrase) ==
    /\ fallback_call.pc = "idle"
    /\ fallback_call' =
          [fallback_call EXCEPT
              !.pc = "derived",
              !.now = [some |-> TRUE, salt |-> config.fallback.passphrase_salt,
                       xor |-> config.fallback.passphrase_xor,
                       iters |-> config.fallback.passphrase_iters,
                       passphrase |-> passphrase,
                       result |-> derive_fallback_key(config, passphrase)]]
    /\ UNCHANGED <<config, beside_fallback>>

\* the caller takes the key or the error
DeriveReturn ==
    /\ fallback_call.pc = "derived"
    /\ fallback_call' = [fallback_call EXCEPT !.pc = "idle", !.now = BlankDerivation,
                                              !.earlier = fallback_call.now]
    /\ UNCHANGED <<config, beside_fallback>>

\* a configuration before provisioning: the defaults of config.rs, where
\* a missing fallback section is enabled and a section without the field
\* is not
InitFallback ==
    /\ \E enabled \in BOOLEAN :
          config = [datasets |-> <<RootDs, ChildDs>>,
                    expected_sha256 |-> None,
                    fallback |-> [enabled |-> enabled, passphrase_salt |-> None,
                                  passphrase_xor |-> None,
                                  passphrase_iters |-> ProvisionIters],
                    retry |-> [max_attempts |-> 0, base_delay_ms |-> 0, max_delay_ms |-> 0,
                               jitter_pct |-> 0]]
    /\ locked = {}
    /\ keyFile = AbsentFile
    /\ pc = "idle"
    /\ call = NoCall
    /\ attempt = 0
    /\ delay_ms = 0
    /\ root = ""
    /\ locked_before = None
    /\ usb = UsbNone
    /\ file_seen = None
    /\ key = <<>>
    /\ unlocked = <<>>
    /\ locked_after = None
    /\ attemptResult = BlankResult
    /\ result = BlankResult
    /\ trace = <<>>
    /\ observed_keys = <<>>
    /\ sleeps = <<>>
    /\ prev_attempt = NoAttempt
    /\ status_call = NoStatusCall
    /\ OthersIdle

NextFallback ==
    \/ \E p \in ProvisionPassphrases, k \in ProvisionedKeys, salt \in Salts :
          Provision(p, k, salt)
    \/ \E how \in Edits : EditFallback(how)
    \/ ToggleFallback
    \/ \E p \in FallbackPassphrases : DeriveFallbackKey(p)
    \/ DeriveReturn

SpecFallback == InitFallback /\ [][NextFallback]_vars

\* ------------------------------------------------------------------------
\* The key codec on its own: decode_key_bytes applied to 32-byte buffers,
\* to their hex encodings in either case with white space put in, and to
\* damaged and malformed inputs
\* ------------------------------------------------------------------------
\* keyfile.rs invalid_key 86-91
invalid_key(path, reason) ==
    [BlankDecoded EXCEPT !.kind = "InvalidHexKey", !.path = path, !.reason = reason]

\* keyfile.rs decode_key_bytes 24-74 as LockchainResult<DecodedKey>: every
\* Err of the function is invalid_key(origin, ..)
DecodedKey(origin, d) ==
    IF d.ok
    THEN [BlankDecoded EXCEPT !.ok = TRUE, !.kind = "Ok", !.key = d.key,
                              !.converted = d.converted]
    ELSE invalid_key(origin, d.reason)

\* 32-byte buffers: the keys of the tests, the extremes, a ramp, and buffers
\* whose bytes are themselves hex digits or white space
Buffers ==
    { KeyA, KeyB, KeyC, KeyF, Repeat(0, KeyLen), Repeat(255, KeyLen),
      [i \in 1..KeyLen |-> (8 * i - 1) % 256], Repeat(97, KeyLen), Repeat(32, KeyLen) }

\* inputs that are no encoding of a key: nothing, white space, "zz", "00",
\* 31 and 33 raw bytes, 64 blanks
MalformedInputs ==
    { <<>>, <<32, 10>>, <<122, 122>>, ShortFile, Repeat(17, 31), Repeat(17, 33),
      Repeat(32, HexLen) }

Origins == {"dummy", "/tmp/key"}

HexCases == {"lower", "upper", "mixed"}

\* hex::encode gives lower case; an operator may store upper or mixed case
HexIn(case, bytes) ==
    LET text == HexEncode(bytes) IN
    [i \in DOMAIN text |->
        IF case = "upper" \/ (case = "mixed" /\ i % 2 = 1) THEN ToAsciiUpper(text[i])
        ELSE text[i]]

WhitespaceBytes == <<9, 10, 12, 13, 32>>

Layouts == {"lines", "padded", "every"}

\* a newline after every 8 digits (keyfile.rs 113-117), white space around
\* the text, or one white space byte of each kind in turn after every byte
WithWhitespace(layout, text) ==
    CASE layout = "lines" ->
            Flatten([i \in DOMAIN text |-> IF i % 8 = 0 THEN <<text[i], 10>> ELSE <<text[i]>>])
      [] layout = "padded" -> <<32, 9>> \o text \o <<13, 10>>
      [] OTHER ->
            Flatten([i \in DOMAIN text |-> <<text[i], WhitespaceBytes[(i % 5) + 1]>>])

Damages == {"drop_one", "drop_two", "add_one", "replace_g", "append_z", "vertical_tab"}

\* one digit less or more, a byte pair less, a letter that is no hex digit
\* in place of a digit or after the digits, a vertical tab (which
\* u8::is_ascii_whitespace does not count as white space)
Damaged(how, text) ==
    CASE how = "drop_one" -> SubSeq(text, 1, Len(text) - 1)
      [] how = "drop_two" -> SubSeq(text, 1, Len(text) - 2)
      [] how = "add_one" -> Append(text, 48)
      [] how = "replace_g" -> [text EXCEPT ![1] = 103]
      [] how = "append_z" -> Append(text, 122)
      [] OTHER -> <<11>> \o text

beside_codec == <<world, status_call, unlock_state, provider_call, keyDir, write_call, fallback_call, callers, drill_call, health, watcher, forge_call>>

\* hex::encode of the buffer (keyfile.rs 112), in the case it is stored in
EncodeAsHex(case) ==
    /\ codec_call.pc = "buffer"
    /\ codec_call' = [codec_call EXCEPT !.pc = "hex", !.encoded = TRUE,
                                        !.bytes = HexIn(case, codec_call.buffer)]
    /\ UNCHANGED beside_codec

\* The text is damaged before it is stored
Damage(how) ==
    /\ codec_call.pc = "hex"
    /\ ~codec_call.damaged
    /\ codec_call' = [codec_call EXCEPT !.damaged = TRUE,
                                        !.bytes = Damaged(how, codec_call.bytes)]
    /\ UNCHANGED beside_codec

\* The text is laid out with white space
LayOut(layout) ==
    /\ codec_call.pc = "hex"
    /\ codec_call' = [codec_call EXCEPT !.pc = "text",
                                        !.bytes = WithWhitespace(layout, codec_call.bytes)]
    /\ UNCHANGED beside_codec

\* keyfile.rs decode_key_bytes(origin, bytes)
DecodeKeyBytes(origin) ==
    /\ codec_call.pc \in {"buffer", "hex", "text"}
    /\ codec_call' = [codec_call EXCEPT !.pc = "decoded", !.origin = origin,
                                        !.result = DecodedKey(origin,
                                                       decode_key_bytes(codec_call.bytes))]
    /\ UNCHANGED beside_codec

InitCodec ==
    /\ config \in BackoffConfigs
    /\ config.retry = RetryCfg(0, 0, 0)
    /\ locked = {}
    /\ keyFile = AbsentFile
    /\ pc = "idle"
    /\ call = NoCall
    /\ attempt = 0
    /\ delay_ms = 0
    /\ root = ""
    /\ locked_before = None
    /\ usb = UsbNone
    /\ file_seen = None
    /\ key = <<>>
    /\ unlocked = <<>>
    /\ locked_after = None
    /\ attemptResult = BlankResult
    /\ result = BlankResult
    /\ trace = <<>>
    /\ observed_keys = <<>>
    /\ sleeps = <<>>
    /\ prev_attempt = NoAttempt
    /\ status_call = NoStatusCall
    /\ fallback_call = NoFallbackCall
    /\ callers = NoCallers
    /\ drill_call = NoDrillCall
    /\ health = NoHealth
    /\ watcher = NoWatcher
    /\ forge_call = NoForgeCall
    /\ provider_call = NoProviderCall
    /\ keyDir = TRUE
    /\ write_call = NoWriteCall
    /\ \/ \E b \in Buffers :
             codec_call = [NoCodecCall EXCEPT !.pc = "buffer", !.buffer = b, !.bytes = b]
       \/ \E m \in MalformedInputs :
             codec_call = [NoCodecCall EXCEPT !.pc = "text", !.bytes = m, !.damaged = TRUE]

NextCodec ==
    \/ \E case \in HexCases : EncodeAsHex(case)
    \/ \E how \in Damages : Damage(how)
    \/ \E layout \in Layouts : LayOut(layout)
    \/ \E origin \in Origins : DecodeKeyBytes(origin)

SpecCodec == InitCodec /\ [][NextCodec]_vars

\* ------------------------------------------------------------------------
\* write_raw_key_file on its own: calls with any key over a path that is
\* free, taken by a file of any content and mode, or whose directory does
\* not exist yet
\* ------------------------------------------------------------------------
\* 0644, 0600, 0400 and 0777
ExistingFileModes == {420, 384, ModeOwnerRead, 511}

\* the mode fs::write gives a file it creates: 0666 less the umask
CreatedFileModes == {420, 384}

UnitOk == [BlankUnit EXCEPT !.ok = TRUE, !.kind = "Ok"]

UnitErr(kind, detail) == [BlankUnit EXCEPT !.kind = kind, !.detail = detail]

\* a chmod that changes nothing
set_permissions_Ignored(file, mode) == file

\* std::fs::set_permissions
set_permissions(file, mode) == [file EXCEPT !.mode = mode]

beside_write == <<config, locked, status_call, unlock_state, provider_call, codec_call, fallback_call, callers, drill_call, health, watcher, forge_call>>

\* keyfile.rs write_raw_key_file 77: entry
WriteRawKeyFile(k) ==
    /\ pc = "idle"
    /\ write_call.pc = "idle"
    /\ write_call' = [NoWriteCall EXCEPT !.pc = "create_dir_all", !.key = k,
                                         !.before = keyFile]
    /\ UNCHANGED <<keyFile, keyDir, beside_write>>

\* write_raw_key_file 78-80: fs::create_dir_all(parent)?
CreateDirAll ==
    /\ write_call.pc = "create_dir_all"
    /\ \/ /\ keyDir' = TRUE
          /\ write_call' = [write_call EXCEPT !.pc = "fs_write", !.made_dir = ~keyDir]
       \/ /\ write_call' = [write_call EXCEPT !.pc = "done",
                                              !.result = UnitErr("Io", "PermissionDenied")]
          /\ UNCHANGED keyDir
    /\ UNCHANGED <<keyFile, beside_write>>

\* write_raw_key_file 81: fs::write(path, key)?  A file that exists keeps
\* its mode.
FsWrite ==
    /\ write_call.pc = "fs_write"
    /\ \/ /\ keyDir
          /\ \E m \in CreatedFileModes :
                keyFile' = [exists |-> TRUE, content |-> write_call.key,
                            mode |-> IF keyFile.exists THEN keyFile.mode ELSE m]
          /\ write_call' = [write_call EXCEPT !.pc = "set_permissions"]
       \/ /\ write_call' = [write_call EXCEPT !.pc = "done",
                                              !.result = UnitErr("Io", "PermissionDenied")]
          /\ UNCHANGED keyFile
    /\ UNCHANGED <<keyDir, beside_write>>

\* write_raw_key_file 82-83: fs::set_permissions(path, 0o400)? and Ok(())
FsSetPermissions ==
    /\ write_call.pc = "set_permissions"
    /\ \/ /\ keyFile.exists
          /\ keyFile' = set_permissions(keyFile, ModeOwnerRead)
          /\ write_call' = [write_call EXCEPT !.pc = "done", !.result = UnitOk]
       \/ /\ write_call' = [write_call EXCEPT !.pc = "done",
                                              !.result = UnitErr("Io", "PermissionDenied")]
          /\ UNCHANGED keyFile
    /\ UNCHANGED <<keyDir, beside_write>>

\* The caller takes the result
WriteReturn ==
    /\ write_call.pc = "done"
    /\ write_call' = NoWriteCall
    /\ UNCHANGED <<keyFile, keyDir, beside_write>>

InitWrite ==
    /\ config \in BackoffConfigs
    /\ config.retry = RetryCfg(0, 0, 0)
    /\ locked = {}
    /\ \/ /\ keyDir = TRUE
          /\ keyFile \in {AbsentFile}
                \cup [exists : {TRUE}, content : FileContents, mode : ExistingFileModes]
       \/ /\ keyDir = FALSE
          /\ keyFile = AbsentFile
    /\ pc = "idle"
    /\ call = NoCall
    /\ attempt = 0
    /\ delay_ms = 0
    /\ root = ""
    /\ locked_before = None
    /\ usb = UsbNone
    /\ file_seen = None
    /\ key = <<>>
    /\ unlocked = <<>>
    /\ locked_after = None
    /\ attemptResult = BlankResult
    /\ result = BlankResult
    /\ trace = <<>>
    /\ observed_keys = <<>>
    /\ sleeps = <<>>
    /\ prev_attempt = NoAttempt
    /\ status_call = NoStatusCall
    /\ fallback_call = NoFallbackCall
    /\ callers = NoCallers
    /\ drill_call = NoDrillCall
    /\ health = NoHealth
    /\ watcher = NoWatcher
    /\ forge_call = NoForgeCall
    /\ provider_call = NoProviderCall
    /\ codec_call = NoCodecCall
    /\ write_call = NoWriteCall

NextWrite ==
    \/ \E k \in {KeyA, KeyB, KeyC} : WriteRawKeyFile(k)
    \/ CreateDirAll
    \/ FsWrite
    \/ FsSetPermissions
    \/ WriteReturn

SpecWrite == InitWrite /\ [][NextWrite]_vars

\* ------------------------------------------------------------------------
\* Two unlock calls at once on one service.  Nothing else touches the key
\* file or the datasets, the medium is writable, and the provider answers
\* truthfully and tolerates a key that is already loaded: whatever fails
\* here fails because of the other caller.  fs::write is File::create
\* (open and truncate) followed by write_all, two steps another caller can
\* come between.
\* ------------------------------------------------------------------------
beside_callers ==
    <<config, status_call, unlock_state, provider_call, codec_call, keyDir, write_call,
      fallback_call,
      drill_call,
      health,
      watcher,
      forge_call>>

\* the owner-write bit (0o200) of a mode
OwnerMayWrite(mode) == (mode \div 128) % 2 = 1

\* the call of caller c returns res
CallerReturns(c, res) == [callers EXCEPT ![c].pc = "done", ![c].result = res]

\* the call of caller c goes where a step of key resolution sends it
CallerKeyStage(c, n) ==
    IF n.pc = "attempt_done" THEN CallerReturns(c, n.res)
    ELSE [callers EXCEPT ![c].pc = n.pc, ![c].key = n.key]

\* unlock 57-59, perform_unlock 104-108: policy check and encryption root
ConcurrentUnlock(c, dataset) ==
    /\ callers[c].pc = "idle"
    /\ callers' =
          IF ~contains_dataset(config, dataset)
          THEN CallerReturns(c, Err("DatasetNotConfigured", dataset))
          ELSE [callers EXCEPT ![c].pc = "locked_before", ![c].dataset = dataset,
                               ![c].root = RootDs]
    /\ UNCHANGED <<locked, keyFile, beside_callers>>

\* perform_unlock 109-119, key_material 169-171
ConcurrentLockedBefore(c) ==
    /\ callers[c].pc = "locked_before"
    /\ LET list == SortedList(locked)
           me == [callers EXCEPT ![c].locked_before = Some(list)] IN
       callers' =
          IF ~RootLockedBefore(list, callers[c].root)
          THEN [me EXCEPT ![c].pc = "done",
                          ![c].result = UnlockReport(callers[c].dataset, callers[c].root,
                                                     <<>>, TRUE)]
          ELSE [me EXCEPT ![c].pc = KeyFromOverride(callers[c].options).pc,
                          ![c].key = KeyFromOverride(callers[c].options).key]
    /\ UNCHANGED <<locked, keyFile, beside_callers>>

\* key_material 173-178, load_usb_key 208, read_key_file 18-19: fs::read of
\* what the file holds at this moment, and decoding
ConcurrentReadKeyFile(c) ==
    /\ callers[c].pc = "read_key_file"
    /\ LET me == [callers EXCEPT ![c].file_seen = Some(keyFile.content)]
           d == decode_key_bytes(keyFile.content) IN
       callers' =
          IF ~keyFile.exists
          THEN CallerKeyStage(c, KeyFromUsbErr(config, callers[c].dataset,
                                               callers[c].options, Err("Io", "NotFound")))
          ELSE IF ~d.ok
          THEN [me EXCEPT ![c].pc = "done",
                          ![c].result = KeyFromUsbErr(config, callers[c].dataset,
                                                      callers[c].options,
                                                      Err("InvalidHexKey", d.reason)).res]
          ELSE IF d.converted
          THEN [me EXCEPT ![c].pc = "fs_open", ![c].key = d.key]
          ELSE [me EXCEPT ![c].pc = KeyFromUsb(config, d.key).pc,
                          ![c].key = KeyFromUsb(config, d.key).key,
                          ![c].result = KeyFromUsb(config, d.key).res]
    /\ UNCHANGED <<locked, keyFile, beside_callers>>

\* write_raw_key_file 78-81: create_dir_all, then the File::create of
\* fs::write, which truncates the file, or is refused on a file without
\* the write bit when the process may not override modes
ConcurrentFsOpen(c) ==
    /\ callers[c].pc = "fs_open"
    /\ IF keyFile.exists /\ ~OwnerMayWrite(keyFile.mode) /\ ~callers[c].privileged
       THEN /\ callers' = CallerKeyStage(c, KeyFromUsbErr(config, callers[c].dataset,
                                                          callers[c].options,
                                                          Err("Io", "PermissionDenied")))
            /\ UNCHANGED keyFile
       ELSE /\ keyFile' = [exists |-> TRUE, content |-> <<>>,
                           mode |-> IF keyFile.exists THEN keyFile.mode ELSE 420]
            /\ callers' = [callers EXCEPT ![c].pc = "fs_write_all"]
    /\ UNCHANGED <<locked, beside_callers>>

\* write_raw_key_file 81: the write_all of fs::write, from offset 0
ConcurrentFsWriteAll(c) ==
    /\ callers[c].pc = "fs_write_all"
    /\ keyFile' = [keyFile EXCEPT
                      !.content = callers[c].key
                                  \o SubSeq(@, Len(callers[c].key) + 1, Len(@))]
    /\ callers' = [callers EXCEPT ![c].pc = "set_permissions"]
    /\ UNCHANGED <<locked, beside_callers>>

\* write_raw_key_file 82-83, then key_material 176-177
ConcurrentSetPermissions(c) ==
    /\ callers[c].pc = "set_permissions"
    /\ keyFile' = set_permissions(keyFile, ModeOwnerRead)
    /\ LET n == KeyFromUsb(config, callers[c].key) IN
       callers' = IF n.pc = "attempt_done" THEN CallerReturns(c, n.res)
                  ELSE [callers EXCEPT ![c].pc = n.pc]
    /\ UNCHANGED <<locked, beside_callers>>

\* perform_unlock 120: load_key_tree of a provider that loads the key into
\* the root and what is locked under it, and takes a key that is already
\* loaded for success
ConcurrentLoadKeyTree(c) ==
    /\ callers[c].pc = "load_key_tree"
    /\ locked' = locked \ Group
    /\ callers' = [callers EXCEPT
                      ![c].pc = "locked_after",
                      ![c].key = <<>>,
                      ![c].unlocked = <<callers[c].root>>
                                      \o SortedList((locked \cap Group) \ {callers[c].root})]
    /\ UNCHANGED <<keyFile, beside_callers>>

\* perform_unlock 122-135
ConcurrentLockedAfter(c) ==
    /\ callers[c].pc = "locked_after"
    /\ callers' =
          IF RootLockedAfter(SortedList(locked), callers[c].root)
          THEN CallerReturns(c, Err("Provider", "still locked after load-key"))
          ELSE CallerReturns(c, UnlockReport(callers[c].dataset, callers[c].root,
                                             callers[c].unlocked, FALSE))
    /\ UNCHANGED <<locked, keyFile, beside_callers>>

\* the key file of the policy: the key of the root, as hex text that the
\* service may rewrite, or raw
ValidKeyFiles ==
    [exists : {TRUE}, content : {HexFileB}, mode : CreatedFileModes]
    \cup [exists : {TRUE}, content : {KeyB}, mode : {420, ModeOwnerRead}]

InitConcurrent ==
    /\ config \in [ datasets : {<<RootDs, ChildDs>>},
                     expected_sha256 : {None, Some(HexEncode(Sha256(KeyB)))},
                     fallback : {[enabled |-> FALSE, passphrase_salt |-> None,
                                  passphrase_xor |-> None,
                                  passphrase_iters |-> PassphraseIters]},
                     retry : {[max_attempts |-> 0, base_delay_ms |-> 0, max_delay_ms |-> 0,
                               jitter_pct |-> 0]} ]
    /\ locked = Group
    /\ keyFile \in ValidKeyFiles
    /\ callers \in [Callers -> {[IdleCaller EXCEPT !.privileged = b] : b \in BOOLEAN}]
    /\ pc = "idle"
    /\ call = NoCall
    /\ attempt = 0
    /\ delay_ms = 0
    /\ root = ""
    /\ locked_before = None
    /\ usb = UsbNone
    /\ file_seen = None
    /\ key = <<>>
    /\ unlocked = <<>>
    /\ locked_after = None
    /\ attemptResult = BlankResult
    /\ result = BlankResult
    /\ trace = <<>>
    /\ observed_keys = <<>>
    /\ sleeps = <<>>
    /\ prev_attempt = NoAttempt
    /\ status_call = NoStatusCall
    /\ provider_call = NoProviderCall
    /\ codec_call = NoCodecCall
    /\ keyDir = TRUE
    /\ write_call = NoWriteCall
    /\ fallback_call = NoFallbackCall
    /\ drill_call = NoDrillCall
    /\ health = NoHealth
    /\ watcher = NoWatcher
    /\ forge_call = NoForgeCall

NextConcurrent ==
    \/ \E c \in Callers, d \in Group : ConcurrentUnlock(c, d)
    \/ \E c \in Callers : ConcurrentLockedBefore(c)
    \/ \E c \in Callers : ConcurrentReadKeyFile(c)
    \/ \E c \in Callers : ConcurrentFsOpen(c)
    \/ \E c \in Callers : ConcurrentFsWriteAll(c)
    \/ \E c \in Callers : ConcurrentSetPermissions(c)
    \/ \E c \in Callers : ConcurrentLoadKeyTree(c)
    \/ \E c \in Callers : ConcurrentLockedAfter(c)

SpecConcurrent == InitConcurrent /\ [][NextConcurrent]_vars

\* ------------------------------------------------------------------------
\* Properties
\* ------------------------------------------------------------------------
Range(seq) == {seq[i] : i \in DOMAIN seq}

InTrace(op) == op \in Range(trace)

PolicySet == Range(config.datasets)

KeySourceOps ==
    {"read_key_file", "fs_write", "set_permissions", "verify_checksum", "derive_fallback_key"}

\* the attempt has returned and its locals are still in view
AttemptOver == pc \in {"attempt_done", "done", "perform_unlock"}

UnlockDone == pc = "done" /\ call.fn = "unlock"

SawRootUnlocked == locked_before.some /\ root \notin Range(locked_before.val)

SawRootLocked == locked_before.some /\ root \in Range(locked_before.val)

UsbNotFound == usb.state = "err" /\ usb.err = Err("Io", "NotFound")

ChecksumMismatch ==
    /\ usb.state = "ok"
    /\ config.expected_sha256.some
    /\ ~EqIgnoreAsciiCase(config.expected_sha256.val, HexEncode(Sha256(usb.key)))

\* C1: when the first locked_descendants query does not list the root, the
\* attempt is over with the report {already_unlocked: true, unlocked: []},
\* it has made exactly the two provider calls encryption_root and
\* locked_descendants, it has resolved no key material and has not called
\* load_key_tree; unlock returns that report.  Calls repeat without bound
\* in the model, so this holds of every repetition.
C1_AlreadyUnlockedIsNoOp ==
    SawRootUnlocked =>
        /\ pc \in {"attempt_done", "done"}
        /\ attemptResult = UnlockReport(call.dataset, root, <<>>, TRUE)
        /\ trace = <<"encryption_root", "locked_descendants">>
        /\ observed_keys = <<>>
        /\ key = <<>>
        /\ usb = UsbNone
        /\ (pc = "done" => result = attemptResult)

C1_Witness ==
    /\ UnlockDone
    /\ SawRootUnlocked
    /\ result.ok /\ result.already_unlocked /\ result.unlocked = <<>>
    /\ call.dataset = ChildDs /\ result.encryption_root = RootDs

\* C2: an attempt succeeds with already_unlocked = false only if its last
\* two operations were load_key_tree and a locked_descendants re-query that
\* does not list the root; if the re-query lists the root the attempt fails
\* with a Provider error, and unlock returns what the attempt returned.
C2_SuccessOnlyAfterVerifiedUnlock ==
    /\ (attemptResult.ok /\ ~attemptResult.already_unlocked) =>
          /\ locked_after.some
          /\ root \notin Range(locked_after.val)
          /\ Len(trace) >= 2
          /\ trace[Len(trace) - 1] = "load_key_tree"
          /\ trace[Len(trace)] = "locked_descendants"
    /\ (locked_after.some /\ root \in Range(locked_after.val)) =>
          /\ ~attemptResult.ok
          /\ attemptResult.kind = "Provider"
    /\ UnlockDone => result = attemptResult

C2_Witness ==
    /\ UnlockDone
    /\ InTrace("load_key_tree")
    /\ locked_after.some
    /\ root \in Range(locked_after.val)
    /\ result.kind = "Provider"

\* C3: for a dataset that is not in policy.datasets the attempt fails with
\* DatasetNotConfigured having performed no provider operation and read no
\* key source, and unlock returns that error.
C3_NotConfiguredBeforeAnything ==
    (pc # "idle" /\ call.dataset \notin PolicySet) =>
        /\ pc \in {"perform_unlock", "attempt_done", "done"}
        /\ trace = <<>>
        /\ observed_keys = <<>>
        /\ usb = UsbNone
        /\ key = <<>>
        /\ root = ""
        /\ locked_before = None
        /\ pc \in {"attempt_done", "done"} =>
              attemptResult = Err("DatasetNotConfigured", call.dataset)
        /\ UnlockDone => result = Err("DatasetNotConfigured", call.dataset)

C3_Witness ==
    /\ UnlockDone
    /\ call.dataset = OtherDs
    /\ result.kind = "DatasetNotConfigured"
    /\ RootDs \in locked
    /\ keyFile.exists

\* C4 (as claimed): unlock_with_retry on a dataset that is not in
\* policy.datasets makes one attempt, does not sleep and returns an error of
\* kind DatasetNotConfigured.
C4_NotConfiguredNeverRetried ==
    (pc = "done" /\ call.fn = "unlock_with_retry" /\ call.dataset \notin PolicySet) =>
        /\ attempt = 1
        /\ sleeps = <<>>
        /\ result.kind = "DatasetNotConfigured"

\* C5: with options.key_override present the attempt performs no operation
\* on a key source (no read or rewrite of the key file, no checksum
\* verification, no fallback derivation), and when the root is locked the
\* key handed to load_key_tree is the override, byte for byte.
C5_OverrideUsedVerbatim ==
    call.options.key_override.some =>
        /\ Range(trace) \cap KeySourceOps = {}
        /\ usb = UsbNone
        /\ \A i \in DOMAIN observed_keys : observed_keys[i] = call.options.key_override.val
        /\ pc = "load_key_tree" => key = call.options.key_override.val
        /\ SawRootLocked =>
              \/ pc = "load_key_tree"
              \/ observed_keys = <<call.options.key_override.val>>

C5_Witness ==
    /\ UnlockDone
    /\ call.options.key_override.some
    /\ observed_keys = <<KeyC>>
    /\ keyFile.exists
    /\ decode_key_bytes(keyFile.content).ok
    /\ result.ok /\ ~result.already_unlocked

C7_StrictUsbSuppressesFallback ==
    (UsbNotFound /\ call.options.strict_usb) =>
        /\ AttemptOver
        /\ attemptResult = Err("MissingKeySource", call.dataset)
        /\ ~InTrace("derive_fallback_key")
        /\ observed_keys = <<>>
        /\ UnlockDone => result = Err("MissingKeySource", call.dataset)

C7_Witness ==
    /\ UnlockDone
    /\ UsbNotFound
    /\ call.options.strict_usb
    /\ config.fallback.enabled
    /\ config.fallback.passphrase_salt.some
    /\ call.options.fallback_passphrase.some
    /\ SawRootLocked
    /\ result.kind = "MissingKeySource"

\* C8 (as claimed): when loading the USB key failed with anything but the
\* I/O error "not found", the attempt returns that error and derives no
\* fallback key.
C8_OnlyNotFoundFallsBack ==
    (usb.state = "err" /\ ~UsbNotFound) =>
        /\ AttemptOver
        /\ attemptResult = usb.err
        /\ ~InTrace("derive_fallback_key")

\* C9: when the key file was read but its content did not decode, the
\* attempt fails with that InvalidHexKey error, derives no fallback key and
\* does not call load_key_tree, whatever the options and the fallback
\* configuration are.
C9_DecodeErrorIsFinal ==
    (usb.state = "err" /\ usb.err.kind = "InvalidHexKey") =>
        /\ AttemptOver
        /\ attemptResult = usb.err
        /\ ~InTrace("derive_fallback_key")
        /\ observed_keys = <<>>
        /\ UnlockDone => result = usb.err

C9_Witness ==
    /\ UnlockDone
    /\ usb.state = "err"
    /\ usb.err.kind = "InvalidHexKey"
    /\ ~call.options.strict_usb
    /\ config.fallback.enabled
    /\ config.fallback.passphrase_salt.some
    /\ call.options.fallback_passphrase.some
    /\ result.kind = "InvalidHexKey"

\* C10: when loading the USB key failed with "not found" and fallback is
\* disabled or no passphrase was supplied, the attempt fails with
\* MissingKeySource(dataset); a fallback key is derived only with
\* strict_usb false, fallback.enabled true and a passphrase supplied.
C10_FallbackNeedsPolicyAndPassphrase ==
    /\ (UsbNotFound /\ (~config.fallback.enabled \/ ~call.options.fallback_passphrase.some)) =>
          /\ AttemptOver
          /\ attemptResult = Err("MissingKeySource", call.dataset)
          /\ observed_keys = <<>>
          /\ UnlockDone => result = Err("MissingKeySource", call.dataset)
    /\ InTrace("derive_fallback_key") =>
          /\ ~call.options.strict_usb
          /\ config.fallback.enabled
          /\ call.options.fallback_passphrase.some

C10_Witness ==
    /\ UnlockDone
    /\ UsbNotFound
    /\ config.fallback.enabled
    /\ ~call.options.strict_usb
    /\ ~call.options.fallback_passphrase.some
    /\ result.kind = "MissingKeySource"

\* the running call is unlock_with_retry and it has returned
RetryDone == pc = "done" /\ call.fn = "unlock_with_retry"

LoadKeyTreeFailed == Err("Provider", "load_key_tree failed")

\* C11: unlock_with_retry returns at the first successful attempt or when
\* max_attempts attempts have failed.  It sleeps once after every failed
\* attempt but the last, so a success after k failures is returned by
\* attempt k + 1 <= max_attempts after k sleeps, and a failure is
\* RetryExhausted with attempts = max_attempts (1 when max_attempts is 0)
\* after max_attempts - 1 sleeps; the loop never runs an attempt beyond
\* max_attempts.
C11_RetryUntilSuccessOrExhaustion ==
    call.fn = "unlock_with_retry" =>
        /\ attempt <= Max(config.retry.max_attempts, 1)
        /\ attempt >= 1 => Len(sleeps) = (IF pc = "perform_unlock" THEN attempt ELSE attempt - 1)
        /\ attempt >= 2 => ~prev_attempt.res.ok /\ prev_attempt.res.kind # "None"
        /\ pc = "done" =>
              \/ /\ result.ok
                 /\ result = attemptResult
              \/ /\ ~attemptResult.ok
                 /\ result.kind = "RetryExhausted"
                 /\ result.attempts = Max(config.retry.max_attempts, 1)
                 /\ attempt = Max(config.retry.max_attempts, 1)
                 /\ Len(sleeps) = Max(config.retry.max_attempts, 1) - 1

C11_Witness ==
    /\ RetryDone
    /\ result.ok /\ ~result.already_unlocked
    /\ attempt = 2
    /\ Len(sleeps) = 1
    /\ prev_attempt.res = LoadKeyTreeFailed
    /\ InTrace("load_key_tree")

RetriedKinds == {"MissingKeySource", "InvalidHexKey", "InvalidConfig", "Provider"}

\* C12: when an attempt of unlock_with_retry has failed with
\* MissingKeySource, InvalidHexKey, InvalidConfig or a Provider error, the
\* next step of the loop is a backoff sleep leading to another attempt if
\* attempts remain, and otherwise the return of an error of kind
\* RetryExhausted; the failed attempt's own kind is never returned.
C12_KeyAndConfigFailuresAreRetried ==
    [][ (/\ pc = "attempt_done"
         /\ call.fn = "unlock_with_retry"
         /\ attemptResult.kind \in RetriedKinds)
        => IF attempt < config.retry.max_attempts
           THEN /\ pc' = "perform_unlock"
                /\ Len(sleeps') = Len(sleeps) + 1
                /\ prev_attempt'.res = attemptResult
                /\ result' = BlankResult
           ELSE /\ pc' = "done"
                /\ result'.kind = "RetryExhausted" ]_vars

C12_Witness ==
    /\ RetryDone
    /\ attempt = 2
    /\ prev_attempt.res.kind = "MissingKeySource"
    /\ attemptResult.kind = "InvalidConfig"
    /\ result.kind = "RetryExhausted"
    /\ Len(sleeps) = 1

\* C13: when unlock_with_retry returns RetryExhausted, last_error is the text
\* of the error the final attempt returned and attempts is the number of
\* attempts the call has executed (one more than the number of sleeps).
C13_ExhaustionReportsLastAttempt ==
    (RetryDone /\ result.kind = "RetryExhausted") =>
        /\ ~attemptResult.ok
        /\ result.last_error = ErrorText(attemptResult)
        /\ result.attempts = attempt
        /\ result.attempts = Len(sleeps) + 1

C13_Witness ==
    /\ RetryDone
    /\ result.kind = "RetryExhausted"
    /\ result.attempts = 2
    /\ prev_attempt.res.kind = "MissingKeySource"
    /\ attemptResult = LoadKeyTreeFailed
    /\ result.last_error = <<"LC2000", "load_key_tree failed">>

\* C14: with retry.max_attempts = 0, unlock_with_retry runs exactly one
\* attempt and never sleeps; it returns the attempt's report when the
\* attempt succeeded and RetryExhausted with attempts = 1 when it failed.
C14_ZeroMaxAttemptsMeansOne ==
    (call.fn = "unlock_with_retry" /\ config.retry.max_attempts = 0) =>
        /\ attempt <= 1
        /\ sleeps = <<>>
        /\ prev_attempt = NoAttempt
        /\ pc = "done" =>
              /\ attempt = 1
              /\ IF attemptResult.ok
                 THEN result = attemptResult
                 ELSE /\ result.kind = "RetryExhausted"
                      /\ result.attempts = 1
                      /\ result.last_error = ErrorText(attemptResult)

C14_Witness ==
    /\ RetryDone
    /\ config.retry.max_attempts = 0
    /\ attemptResult = LoadKeyTreeFailed
    /\ result.kind = "RetryExhausted"
    /\ result.attempts = 1
    /\ sleeps = <<>>

RECURSIVE Pow2(_)
Pow2(n) == IF n = 0 THEN 1 ELSE 2 * Pow2(n - 1)

\* C15 (as claimed, read with the floor of one millisecond that the loop
\* applies to every delay): with jitter_ratio = 0 the n-th sleep of a call is
\* min(base_delay_ms * 2^(n-1), max_delay_ms), so no sleep is longer than
\* max_delay_ms, whatever the RetryCfg.
C15_BackoffIsCappedExponential ==
    (call.fn = "unlock_with_retry" /\ config.retry.jitter_pct = 0) =>
        \A n \in DOMAIN sleeps :
            /\ sleeps[n] = Max(Min(config.retry.base_delay_ms * Pow2(n - 1),
                                   config.retry.max_delay_ms), 1)
            /\ sleeps[n] <= Max(config.retry.max_delay_ms, 1)

\* the delay_ms the loop holds when it sleeps for the n-th time
RECURSIVE DelayAt(_, _)
DelayAt(retry, n) ==
    IF n = 1 THEN Max(retry.base_delay_ms, 1)
    ELSE Min(2 * DelayAt(retry, n - 1), Max(retry.max_delay_ms, 1))

\* C16: every sleep is at least 1 ms, also with base_delay_ms = 0 or
\* max_delay_ms = 0.  With jitter_ratio in (0, 1] the n-th sleep is, to the
\* nearest millisecond, the un-jittered delay d times 1 + jitter_ratio *
\* offset with offset = ((n * 37) mod 100) / 100 - 0.5, a function of the
\* attempt number alone that lies in [-0.5, 0.5]; so the sleep lies within
\* half a millisecond of d * (1 - jitter_ratio/2) .. d * (1 + jitter_ratio/2).
\* With jitter_ratio = 0 the sleep is d.  (Quantities in ten-thousandths.)
C16_JitterWithinBand ==
    call.fn = "unlock_with_retry" =>
        \A n \in DOMAIN sleeps :
            LET d == DelayAt(config.retry, n)
                pct == config.retry.jitter_pct
                offset == ((n * 37) % 100) - 50
            IN /\ sleeps[n] >= 1
               /\ offset \in -50..50
               /\ pct = 0 => sleeps[n] = d
               /\ pct \in 1..100 =>
                     /\ 10000 * sleeps[n] + 5000 >= d * (10000 - 50 * pct)
                     /\ 10000 * sleeps[n] - 5000 <= d * (10000 + 50 * pct)
                     /\ 10000 * sleeps[n] + 5000 > d * (10000 + pct * offset)
                     /\ 10000 * sleeps[n] - 5000 <= d * (10000 + pct * offset)

C16_Witness ==
    /\ RetryDone
    /\ config.retry.jitter_pct = 100
    /\ config.retry.base_delay_ms = 3
    /\ sleeps = <<3, 5>>

\* the key that the bytes of a key file stand for, among the contents the
\* file has here: 32 raw bytes are the key, HexFileB spells KeyB
KeyReadFrom(bytes) ==
    IF Len(bytes) = KeyLen THEN bytes
    ELSE IF bytes = HexFileB THEN KeyB
    ELSE <<>>

\* C17: every attempt resolves its key material anew.  Without a
\* key_override, a key handed to load_key_tree is either the decoding of the
\* bytes that this very attempt read from the key file, or the fallback key
\* derived in this attempt after its own read of the key file failed (KeyF,
\* the key the fallback configuration masks); what an earlier attempt of the
\* call read or handed over plays no part.
C17_NoKeyCachedAcrossAttempts ==
    (pc # "idle" /\ ~call.options.key_override.some) =>
        /\ file_seen.some => InTrace("read_key_file")
        /\ \A i \in DOMAIN observed_keys :
              /\ InTrace("read_key_file")
              /\ \/ /\ usb.state = "ok"
                    /\ file_seen.some
                    /\ Len(observed_keys[i]) = KeyLen
                    /\ observed_keys[i] = KeyReadFrom(file_seen.val)
                 \/ /\ usb.state = "err"
                    /\ InTrace("derive_fallback_key")
                    /\ call.options.fallback_passphrase = Some(Passphrase)
                    /\ observed_keys[i] = KeyF

C17_Witness ==
    /\ RetryDone
    /\ ~call.options.key_override.some
    /\ attempt = 2
    /\ prev_attempt.keys = <<KeyA>>
    /\ file_seen = Some(HexFileB)
    /\ observed_keys = <<KeyB>>
    /\ decode_key_bytes(HexFileB) = DecodeOk(KeyB, TRUE)
    /\ result.ok

\* the step of perform_unlock that the i-th operation of the attempt belongs
\* to: 1 root resolution, 2 lock query, 3 key resolution, 4 load_key_tree,
\* 5 the re-query
StepOf(i) ==
    CASE trace[i] = "encryption_root" -> 1
      [] trace[i] = "locked_descendants" ->
            IF \E j \in 1..(i - 1) : trace[j] = "load_key_tree" THEN 5 ELSE 2
      [] trace[i] \in KeySourceOps -> 3
      [] trace[i] = "load_key_tree" -> 4
      [] OTHER -> 0

AttemptFailed == attemptResult.kind \notin {"None", "Ok"}

KeyResolutionErrors == {"Io", "InvalidHexKey", "InvalidConfig", "MissingKeySource"}

\* C18: the operations of an attempt occur in the order encryption_root,
\* locked_descendants, key resolution, load_key_tree, locked_descendants:
\* the first operation is encryption_root, the second the lock query, an
\* operation of key resolution and load_key_tree come right after the lock
\* query or an operation of key resolution, and the re-query right after
\* load_key_tree.  Once a step has failed the attempt is over with that error
\* and its operations end with the failed step; load_key_tree is called
\* only with a resolved root, a lock query that lists the root and one
\* resolved key.
C18_StepsInOrder ==
    /\ trace # <<>> => trace[1] = "encryption_root"
    /\ Len(trace) >= 2 => trace[2] = "locked_descendants"
    /\ \A i \in 3..Len(trace) :
          LET after_query_or_key_op == i = 3 \/ trace[i - 1] \in KeySourceOps IN
          CASE trace[i] \in KeySourceOps -> after_query_or_key_op
            [] trace[i] = "load_key_tree" -> after_query_or_key_op
            [] trace[i] = "locked_descendants" -> trace[i - 1] = "load_key_tree"
            [] OTHER -> FALSE
    /\ AttemptFailed =>
          /\ AttemptOver
          /\ attemptResult.detail = "encryption_root failed" => trace = <<"encryption_root">>
          /\ attemptResult.detail = "locked_descendants failed" =>
                StepOf(Len(trace)) \in {2, 5}
          /\ attemptResult.kind \in KeyResolutionErrors =>
                /\ StepOf(Len(trace)) = 3
                /\ ~InTrace("load_key_tree")
          /\ attemptResult.detail = "load_key_tree failed" => StepOf(Len(trace)) = 4
          /\ UnlockDone => result = attemptResult
    /\ (InTrace("load_key_tree") \/ pc = "load_key_tree") =>
          /\ root # ""
          /\ SawRootLocked
          /\ Len(observed_keys) = (IF pc = "load_key_tree" THEN 0 ELSE 1)

C18_Witness ==
    /\ UnlockDone
    /\ result.kind = "InvalidHexKey"
    /\ trace = <<"encryption_root", "locked_descendants", "read_key_file">>
    /\ RootDs \in locked

\* C19 (as claimed): every key handed to load_key_tree is exactly 32 bytes
\* long, whichever source it was resolved from.
C19_EveryKeyIs32Bytes ==
    \A i \in DOMAIN observed_keys : Len(observed_keys[i]) = KeyLen

\* C19 (amended): every key resolved from the key file or derived from the
\* fallback passphrase is exactly 32 bytes long when it is handed to
\* load_key_tree; a key_override is handed over as the caller gave it,
\* whatever its length.
C19_ResolvedKeyIs32Bytes ==
    IF call.options.key_override.some
    THEN /\ \A i \in DOMAIN observed_keys : observed_keys[i] = call.options.key_override.val
         /\ pc = "load_key_tree" => key = call.options.key_override.val
    ELSE /\ \A i \in DOMAIN observed_keys : Len(observed_keys[i]) = KeyLen
         /\ pc = "load_key_tree" => Len(key) = KeyLen

C19_Witness ==
    /\ UnlockDone
    /\ ~call.options.key_override.some
    /\ InTrace("derive_fallback_key")
    /\ observed_keys = <<KeyF>>
    /\ Len(KeyF) = KeyLen
    /\ result.ok

\* the place of dataset d in list
IndexIn(list, d) == CHOOSE i \in DOMAIN list : list[i] = d

StatusDone == status_call.pc = "done"

\* C20: status changes nothing: its steps leave the storage engine, the key
\* file and the configuration as they are, and the only operations it
\* performs are encryption_root and locked_descendants.  For a dataset in
\* policy.datasets a successful status has root_locked = (the root is in the
\* list the provider returned) and locked_descendants = that list without
\* the root, in the provider's order; for a dataset not in policy.datasets
\* it fails with DatasetNotConfigured having performed no operation.
C20_StatusResult ==
    /\ status_call.trace \in {<<>>, <<"encryption_root">>,
                               <<"encryption_root", "locked_descendants">>}
    /\ (StatusDone /\ status_call.dataset \notin PolicySet) =>
          /\ status_call.result = StatusErr("DatasetNotConfigured", status_call.dataset)
          /\ status_call.trace = <<>>
    /\ (StatusDone /\ status_call.dataset \in PolicySet) =>
          IF status_call.result.ok
          THEN LET list == status_call.locked.val
                   res == status_call.result
                   ld == res.locked_descendants
               IN /\ status_call.locked.some
                  /\ status_call.trace = <<"encryption_root", "locked_descendants">>
                  /\ res.dataset = status_call.dataset
                  /\ res.encryption_root = status_call.root
                  /\ res.root_locked = (status_call.root \in Range(list))
                  /\ Range(ld) = Range(list) \ {status_call.root}
                  /\ Len(ld) = Cardinality(Range(ld))
                  /\ \A i, j \in DOMAIN ld :
                        i < j => IndexIn(list, ld[i]) < IndexIn(list, ld[j])
          ELSE status_call.result.kind = "Provider"

C20_StatusIsReadOnly ==
    /\ []C20_StatusResult
    /\ [][status_call' # status_call => UNCHANGED <<config, locked, keyFile>>]_vars

C20_Witness ==
    /\ StatusDone
    /\ status_call.dataset = ChildDs
    /\ status_call.result.ok
    /\ status_call.result.root_locked
    /\ status_call.locked = Some(<<WorkDs, ChildDs, RootDs>>)
    /\ status_call.result.locked_descendants = <<WorkDs, ChildDs>>
    /\ keyFile.exists

ListKeysDone == provider_call.fn = "describe_datasets" /\ provider_call.pc = "done"

\* C21: list_keys over the system provider returns one descriptor per
\* dataset of policy.datasets, descriptor i naming dataset i; while the call
\* runs the snapshot is a prefix of that list, and when any step fails for
\* any dataset the call returns the error and no snapshot at all.
C21_ListKeysOnePerDatasetInOrder ==
    provider_call.fn = "describe_datasets" =>
        /\ provider_call.datasets = config.datasets
        /\ Len(provider_call.snapshot) <= Len(config.datasets)
        /\ \A k \in DOMAIN provider_call.snapshot :
              provider_call.snapshot[k].dataset = config.datasets[k]
        /\ provider_call.pc = "done" =>
              IF provider_call.result.ok
              THEN /\ Len(provider_call.result.list) = Len(config.datasets)
                   /\ \A k \in DOMAIN config.datasets :
                         provider_call.result.list[k].dataset = config.datasets[k]
              ELSE /\ provider_call.result.list = <<>>
                   /\ provider_call.result.kind \in {"InvalidConfig", "Provider"}

C21_Witness ==
    /\ ListKeysDone
    /\ provider_call.result.ok
    /\ config.datasets = <<WorkDs, VaultDs, RootDs, OtherDs>>
    /\ Len(provider_call.result.list) = 4
    /\ provider_call.result.list[1].state.state = "Unavailable"
    /\ provider_call.result.list[2].state.state = "Unknown"
    /\ provider_call.result.list[3].state.state = "Available"
    /\ provider_call.checked_pools = {"tank", "vault"}

UnlockSucceeded == UnlockDone /\ result.ok /\ ~result.already_unlocked

RawKeyFile(k) == [exists |-> TRUE, content |-> k, mode |-> ModeOwnerRead]

\* C22 (as claimed): when unlock has succeeded and the attempt read the
\* hex-encoded key file, the file holds the 32 decoded bytes with mode 0400
\* and load_key_tree was given those bytes; when the attempt read a raw
\* 32-byte file, the file was not written and has the mode it had.
C22_HexFileNormalisedOnSuccess ==
    UnlockSucceeded =>
        /\ file_seen = Some(HexFileB) =>
              /\ keyFile = RawKeyFile(KeyB)
              /\ observed_keys = <<KeyB>>
        /\ file_seen = Some(KeyA) =>
              /\ ~InTrace("fs_write")
              /\ ~InTrace("set_permissions")
              /\ keyFile.content = KeyA
              /\ keyFile.mode \in FileModes

Decoded == codec_call.pc = "decoded"

\* C23: decode_key_bytes of a 32-byte buffer B returns (B, false), and
\* decode_key_bytes of the 64 hex digits of B, in lower, upper or mixed case
\* and with ASCII white space put in anywhere, returns (B, true).
C23_CodecRoundTrip ==
    (Decoded /\ codec_call.buffer # <<>> /\ ~codec_call.damaged) =>
        /\ Len(codec_call.buffer) = KeyLen
        /\ codec_call.result.ok
        /\ codec_call.result.key = codec_call.buffer
        /\ codec_call.result.converted = codec_call.encoded
        /\ ~codec_call.encoded => codec_call.bytes = codec_call.buffer

C23_Witness ==
    /\ Decoded
    /\ codec_call.buffer = KeyB
    /\ codec_call.encoded
    /\ Len(codec_call.bytes) = 2 * HexLen
    /\ \E i \in DOMAIN codec_call.bytes : codec_call.bytes[i] \in 65..70
    /\ \E i \in DOMAIN codec_call.bytes : codec_call.bytes[i] \in 97..102
    /\ \A w \in {9, 10, 12, 13, 32} : \E i \in DOMAIN codec_call.bytes : codec_call.bytes[i] = w
    /\ codec_call.result.ok
    /\ codec_call.result.key = KeyB
    /\ codec_call.result.converted

HexDigitCount(bytes) == Cardinality({i \in DOMAIN bytes : IsAsciiHexDigit(bytes[i])})

\* the inputs the claim names
NoKeyEncoding(bytes) ==
    \/ bytes = <<>>
    \/ \E i \in DOMAIN bytes : ~IsAsciiWhitespace(bytes[i]) /\ ~IsAsciiHexDigit(bytes[i])
    \/ \A i \in DOMAIN bytes : IsAsciiWhitespace(bytes[i])
    \/ HexDigitCount(bytes) # HexLen

\* C24: for an input whose length is not 32 and which is empty, holds a
\* byte that is neither ASCII white space nor a hex digit, is white space
\* only, or has a number of hex digits other than 64, decode_key_bytes
\* returns an InvalidHexKey error that names the origin path, and no key.
C24_MalformedInputRejected ==
    (Decoded /\ Len(codec_call.bytes) # KeyLen /\ NoKeyEncoding(codec_call.bytes)) =>
        /\ ~codec_call.result.ok
        /\ codec_call.result.kind = "InvalidHexKey"
        /\ codec_call.result.path = codec_call.origin
        /\ codec_call.result.key = <<>>
        /\ codec_call.result.reason # ""

C24_Witness ==
    /\ Decoded
    /\ codec_call.origin = "/tmp/key"
    /\ HexDigitCount(codec_call.bytes) = HexLen
    /\ Len(codec_call.bytes) = 2 * HexLen + 2
    /\ codec_call.bytes[2 * HexLen + 1] = 122
    /\ codec_call.result = invalid_key("/tmp/key", "found non-hex byte")

WriteDone == write_call.pc = "done"

\* C25: when write_raw_key_file returns Ok, the file at the path holds the
\* input bytes and its mode is 0400, whatever the path held before and
\* whether or not the directory had to be created; a call that did not get
\* as far as setting the mode returns an Io error, never Ok.
C25_WrittenKeyFileIsOwnerReadOnly ==
    /\ (WriteDone /\ write_call.result.ok) =>
          /\ keyDir
          /\ keyFile = RawKeyFile(write_call.key)
    /\ (WriteDone /\ ~write_call.result.ok) => write_call.result.kind = "Io"
    /\ write_call.pc \in {"create_dir_all", "fs_write", "set_permissions"} =>
          write_call.result = BlankUnit

C25_Witness ==
    /\ WriteDone
    /\ write_call.result.ok
    /\ write_call.key = KeyC
    /\ write_call.before = [exists |-> TRUE, content |-> HexFileB, mode |-> 511]
    /\ keyFile = RawKeyFile(KeyC)
\* C29: the key load of the system provider takes the "Key already loaded"
\* answer of the load-key command, and no other non-zero exit, for success:
\* after a load that exited non-zero, load_key_tree goes on exactly when the
\* command's diagnostic (standard error, or standard output when standard
\* error is blank) says "Key already loaded", and otherwise returns the
\* error the answer classifies to; a load of a dataset whose key was
\* already loaded, answered that way, never ends the call.
AlreadyLoadedAnswer(out) ==
    \/ Contains(out.stderr, <<"Key", "already", "loaded">>)
    \/ /\ out.stderr = <<>>
       /\ \E i \in DOMAIN out.stdout : Contains(out.stdout[i], <<"Key", "already", "loaded">>)

LoadStep ==
    /\ provider_call.pc \in {"load_key_root", "load_key_pending"}
    /\ provider_call' # provider_call

LoadFailed == provider_call'.pc = "done" /\ ~provider_call'.result.ok

C29_OnlyAlreadyLoadedIsTolerated ==
    [][LoadStep =>
         LET out == provider_call'.answer
             ds == provider_call'.loads[Len(provider_call'.loads)] IN
         /\ out.status = 0 => ~LoadFailed
         /\ (out.status # 0 /\ AlreadyLoadedAnswer(out)) => ~LoadFailed
         /\ (out.status # 0 /\ ~AlreadyLoadedAnswer(out)) =>
               /\ LoadFailed
               /\ provider_call'.result.kind \in {"Provider", "InvalidConfig"}
               /\ provider_call'.unlocked = provider_call.unlocked
         /\ (ds \notin locked /\ AlreadyLoadedAnswer(out)) =>
               /\ ~LoadFailed
               /\ locked' = locked
               /\ provider_call'.unlocked = Append(provider_call.unlocked, ds)]_vars

\* the root's key was loaded from outside between the service's check and
\* the load; the command said so on standard output, and the call returned
\* the root as unlocked
C29_Witness ==
    /\ provider_call.fn = "load_key_tree"
    /\ provider_call.pc = "done"
    /\ provider_call.result = ProviderOk(<<RootDs>>)
    /\ provider_call.loads = <<RootDs>>
    /\ provider_call.answer.status = 1
    /\ provider_call.answer.stderr = <<>>
    /\ AlreadyLoadedAnswer(provider_call.answer)
    /\ locked_before = Some(<<RootDs, ChildDs>>)
    /\ locked = {}

\* the place of a dataset name in the byte order of the names
NameRank(d) == CHOOSE i \in DOMAIN DatasetOrder : DatasetOrder[i] = d

\* a list that starts with the root and goes on with other names in
\* strictly ascending order
RootFirstThenSorted(list, r) ==
    /\ list # <<>>
    /\ list[1] = r
    /\ \A i \in 2..Len(list) : list[i] # r
    /\ \A i, j \in 2..Len(list) : i < j => NameRank(list[i]) < NameRank(list[j])

\* C30: load_key_tree runs load-key on the root before any descendant and
\* then on the descendants in sorted order; the list it returns is the root
\* followed by those descendants, and the unlocked list of a report with
\* already_unlocked = false is the returned list unchanged.
C30_RootFirstThenSortedDescendants ==
    /\ [](provider_call.fn = "load_key_tree" /\ provider_call.loads # <<>> =>
            /\ RootFirstThenSorted(provider_call.loads, provider_call.root)
            /\ provider_call.unlocked \in {provider_call.loads,
                                            SubSeq(provider_call.loads, 1,
                                                   Len(provider_call.loads) - 1)}
            /\ (provider_call.pc = "done" /\ provider_call.result.ok) =>
                  provider_call.result.list = provider_call.loads)
    /\ [][(pc = "in_load_key_tree" /\ pc' = "locked_after") =>
              /\ provider_call.result.ok
              /\ unlocked' = provider_call.result.list]_vars
    /\ []((pc = "done" /\ result.ok /\ ~result.already_unlocked) =>
            /\ result.unlocked = unlocked
            /\ RootFirstThenSorted(result.unlocked, result.encryption_root))

\* the root and both descendants were locked; the report lists all three,
\* root first
C30_Witness ==
    /\ pc = "done"
    /\ result = UnlockReport(ChildDs, RootDs, <<RootDs, ChildDs, WorkDs>>, FALSE)
    /\ locked_before = Some(<<RootDs, ChildDs, WorkDs>>)
    /\ locked = {}

FallbackDerived == fallback_call.pc = "derived"

\* text that is not the hex encoding of a byte string
NotHex(text) ==
    \/ Len(text) % 2 = 1
    \/ \E i \in DOMAIN text : ~IsAsciiHexDigit(text[i])

\* the stored material the claim names: salt or masked value missing, one
\* of them not hex, or a masked value that is not 32 bytes
MaterialUnusable(d) ==
    \/ ~d.salt.some
    \/ ~d.xor.some
    \/ NotHex(d.salt.val)
    \/ NotHex(d.xor.val)
    \/ Len(d.xor.val) # 2 * KeyLen

\* C26: derive_fallback_key returns a configuration error and no key when
\* the salt or the masked value is missing, when either is not valid hex,
\* or when the masked value does not decode to exactly 32 bytes, whatever
\* the passphrase.
C26_UnusableMaterialIsConfigError ==
    (FallbackDerived /\ MaterialUnusable(fallback_call.now)) =>
        /\ ~fallback_call.now.result.ok
        /\ fallback_call.now.result.key = <<>>
        /\ fallback_call.now.result.err.kind = "InvalidConfig"

\* a masked value of 31 bytes, valid hex, with the passphrase provisioning
\* was given
C26_Witness ==
    /\ FallbackDerived
    /\ fallback_call.now.salt.some
    /\ fallback_call.now.xor.some
    /\ ~NotHex(fallback_call.now.salt.val)
    /\ ~NotHex(fallback_call.now.xor.val)
    /\ Len(fallback_call.now.xor.val) = 2 * (KeyLen - 1)
    /\ fallback_call.now.passphrase = Passphrase
    /\ fallback_call.now.result.err = Err("InvalidConfig",
                                          "fallback.passphrase_xor length must be 32 bytes")

\* two derivations read the same passphrase, salt, masked value and rounds
SameInputs(a, b) ==
    /\ a.some /\ b.some
    /\ a.passphrase = b.passphrase
    /\ a.salt = b.salt
    /\ a.xor = b.xor
    /\ a.iters = b.iters

\* C27: over the material provisioning stored for a passphrase,
\* derive_fallback_key with that passphrase returns the provisioned key;
\* derivations with equal passphrase, salt, masked value and rounds return
\* the same; zero configured rounds derive what one round derives.
C27_FallbackRoundTrip ==
    FallbackDerived =>
        /\ (/\ fallback_call.provisioned.some
            /\ fallback_call.now.passphrase = fallback_call.provisioned.passphrase) =>
               fallback_call.now.result = KeyOk(fallback_call.provisioned.key)
        /\ SameInputs(fallback_call.now, fallback_call.earlier) =>
               fallback_call.now.result = fallback_call.earlier.result
        /\ fallback_call.now.iters = 0 =>
               fallback_call.now.result =
                  derive_fallback_key([config EXCEPT !.fallback.passphrase_iters = 1],
                                      fallback_call.now.passphrase)

\* the provisioned key comes back a second time, from material whose hex
\* digits were put in upper case and with the fallback switched off since
C27_Witness ==
    /\ FallbackDerived
    /\ fallback_call.provisioned = [some |-> TRUE, passphrase |-> Passphrase, key |-> KeyF]
    /\ fallback_call.now.passphrase = Passphrase
    /\ fallback_call.now.result = KeyOk(KeyF)
    /\ fallback_call.now.iters = ProvisionIters
    /\ fallback_call.now.salt.val[1] = 65
    /\ SameInputs(fallback_call.now, fallback_call.earlier)
    /\ ~config.fallback.enabled

\* C28: two unlock calls running at once for the same locked root with a
\* valid key file both return a success report, and the root is unlocked
\* when both have returned.
C28_ConcurrentUnlocksBothSucceed ==
    /\ \A c \in Callers : callers[c].pc = "done" => callers[c].result.ok
    /\ (\A c \in Callers : callers[c].pc = "done") => RootDs \notin locked

\* a step of the service or of the provider, not of the environment
ProgramStep == provider_call' # provider_call \/ pc' # pc

\* C31: a partially applied load is not rolled back: no step of
\* load_key_tree, unlock or unlock_with_retry unloads a key, the step on
\* which load_key_tree fails included, so what the call loaded stays
\* unlocked when it returns its error.
C31_PartialLoadIsNotRolledBack ==
    [][ProgramStep => locked' \subseteq locked]_vars

\* load_key_tree under unlock_with_retry loaded the root, then failed on a
\* descendant: it returned the error and the root is unlocked
C31_Witness ==
    /\ call.fn = "unlock_with_retry"
    /\ locked_before = Some(<<RootDs, ChildDs, WorkDs>>)
    /\ provider_call.fn = "load_key_tree"
    /\ provider_call.pc = "done"
    /\ ~provider_call.result.ok
    /\ provider_call.loads = <<RootDs, ChildDs>>
    /\ provider_call.unlocked = <<RootDs>>
    /\ locked = {ChildDs, WorkDs}

\* locked_descendants has read the key status and returns its list
LockedDescendantsAnswers ==
    /\ provider_call.fn = "locked_descendants"
    /\ provider_call.pc = "zfs_keystatus"
    /\ provider_call'.pc = "done"
    /\ provider_call'.result.ok

\* C32: the list locked_descendants(root) returns is, in lexicographic
\* order and without duplicates, exactly the datasets under the root that
\* have the root for encryption root and whose key is not loaded when the
\* key status is read, whatever word other than "available" the status
\* column shows for them, the root included; a dataset under the root with
\* another encryption root is not in it.
C32_LockedDescendantsExact ==
    [][LockedDescendantsAnswers =>
          /\ provider_call'.result.list = SortedList(locked)
          /\ \A i \in DOMAIN provider_call'.result.list :
                /\ EncryptionRootOf(provider_call'.result.list[i]) = provider_call.root
                /\ provider_call'.result.list[i] # NestedDs
          /\ \A i, j \in DOMAIN provider_call'.result.list :
                i < j => NameRank(provider_call'.result.list[i])
                           < NameRank(provider_call'.result.list[j])]_vars

\* the root and one descendant are locked, the nested encryption root is
\* locked too and is left out
C32_Witness ==
    /\ provider_call.fn = "locked_descendants"
    /\ provider_call.pc = "done"
    /\ provider_call.result = ProviderOk(<<RootDs, WorkDs>>)
    /\ provider_call.same_root = StatusGroup
    /\ locked = {RootDs, WorkDs}

\* ------------------------------------------------------------------------
\* unlock and unlock_with_retry when nothing but the service touches the
\* key file
\* ------------------------------------------------------------------------
InitRewrite ==
    /\ Init
    /\ keyFile.exists
    /\ Len(keyFile.content) >= KeyLen

NextRewrite ==
    \/ \E fn \in {"unlock", "unlock_with_retry"}, d \in CallDatasets, o \in UnlockOptions :
          Call(fn, d, o)
    \/ PerformUnlock
    \/ EncryptionRoot
    \/ LockedBefore
    \/ ReadKeyFile
    \/ WriteKeyFile
    \/ SetPermissions
    \/ LoadKeyTree
    \/ LockedAfter
    \/ UnlockReturn
    \/ RetryReturn
    \/ RetrySleep
    \/ Return
    \/ EnvLock

SpecRewrite == InitRewrite /\ [][NextRewrite]_vars

\* ------------------------------------------------------------------------
\* lockchain-key-usb: the udev event loop.  One thread handles one event at
\* a time; the destination is the key file of the service.  No device
\* label or UUID is configured.
\* ------------------------------------------------------------------------
beside_watch ==
    <<config, locked, status_call, unlock_state, provider_call, codec_call, fallback_call,
      callers, drill_call, health,
      forge_call>>

UsbPartition(devpath, devnode, source) ==
    [devpath |-> devpath, devnode |-> devnode, devtype |-> "partition", id_bus |-> "usb",
     mounted |-> TRUE, source |-> source]

\* two tokens with a usable key, one with a damaged key, one without a key
\* file, one that is never mounted, the first token seen under another
\* devpath, an event without a devnode, and an internal disk
UdevDevices ==
    { UsbPartition("/devices/usb1/sdb1", "/dev/sdb1", Some(KeyA)),
      UsbPartition("/devices/usb2/sdc1", "/dev/sdc1", Some(HexFileB)),
      UsbPartition("/devices/usb3/sdd1", "/dev/sdd1", Some(ShortFile)),
      UsbPartition("/devices/usb3/sdd1", "/dev/sdd1", None),
      [UsbPartition("/devices/usb4/sde1", "/dev/sde1", Some(KeyA)) EXCEPT !.mounted = FALSE],
      UsbPartition("/devices/usb1/port2/sdb1", "/dev/sdb1", Some(KeyA)),
      UsbPartition("/devices/usb1/sdb1", "", Some(KeyA)),
      UsbPartition("/devices/usb5/sdf1", "", Some(KeyA)),
      [UsbPartition("/devices/ata1/sda1", "/dev/sda1", Some(KeyA)) EXCEPT !.id_bus = "ata"],
      [UsbPartition("/devices/usb1/sdb", "/dev/sdb", Some(KeyA)) EXCEPT !.devtype = "disk"] }

UdevActions == {"add", "change", "bind", "remove", "unbind", "move"}

\* main.rs device_matches 274-298 without a configured label or UUID
device_matches(device) == device.devtype = "partition" /\ device.id_bus = "usb"

\* main.rs clear_destination 245-252: the file is removed, was not there,
\* or cannot be removed (which is logged)
clear_destination(file) == {AbsentFile} \cup (IF file.exists THEN {file} ELSE {})

\* keyfile.rs read_key_file 18-21 on the key file of the device
ReadSource(device) ==
    IF device.source.some THEN decode_key_bytes(device.source.val)
    ELSE DecodeErr("No such file or directory")

\* which arm of clear_destination the event took, if it called it
Cleared(outcome, before, after) ==
    IF outcome \notin {"decode_failed", "checksum_mismatch", "removed"} THEN "none"
    ELSE IF ~before.exists THEN "not_found"
    ELSE IF after.exists THEN "failed"
    ELSE "removed"

\* the event has been handled without a write: what it did, and the
\* destination it leaves
Handled(action, device, outcome, active, file) ==
    /\ watcher' = [watcher EXCEPT !.active = active,
                                  !.last = [action |-> action, device |-> device,
                                            outcome |-> outcome,
                                            cleared |-> Cleared(outcome, keyFile, file)]]
    /\ keyFile' = file
    /\ UNCHANGED write_call

\* an import that writes the decoded key without looking at the checksum
TryImport_WritesUnverified(action, device) ==
    IF ~device_matches(device)
    THEN Handled(action, device, "no_match", watcher.active, keyFile)
    ELSE IF watcher.active.some /\ watcher.active.devpath = device.devpath
    THEN Handled(action, device, "already_active", watcher.active, keyFile)
    ELSE IF device.devnode = ""
    THEN Handled(action, device, "no_devnode", watcher.active, keyFile)
    ELSE IF ~device.mounted
    THEN Handled(action, device, "mount_timeout", watcher.active, keyFile)
    ELSE LET d == ReadSource(device) IN
         IF ~d.ok
         THEN \E f \in clear_destination(keyFile) :
                 Handled(action, device, "decode_failed", watcher.active, f)
         ELSE /\ watcher' = [watcher EXCEPT !.pc = "writing", !.device = device, !.key = d.key,
                                            !.last = [action |-> action, device |-> device,
                                                      outcome |-> "writing",
                                                      cleared |-> "none"]]
              /\ write_call' = [NoWriteCall EXCEPT !.pc = "create_dir_all", !.key = d.key,
                                                   !.before = keyFile]
              /\ UNCHANGED keyFile

\* main.rs try_import 137-195: up to the call of write_raw_key_file
TryImport(action, device) ==
    IF ~device_matches(device)
    THEN Handled(action, device, "no_match", watcher.active, keyFile)
    ELSE IF watcher.active.some /\ watcher.active.devpath = device.devpath
    THEN Handled(action, device, "already_active", watcher.active, keyFile)
    ELSE IF device.devnode = ""
    THEN Handled(action, device, "no_devnode", watcher.active, keyFile)
    ELSE IF ~device.mounted
    THEN Handled(action, device, "mount_timeout", watcher.active, keyFile)
    ELSE LET d == ReadSource(device) IN
         IF ~d.ok
         THEN \E f \in clear_destination(keyFile) :
                 Handled(action, device, "decode_failed", watcher.active, f)
         ELSE IF ~verify_checksum(config, d.key).ok
         THEN \E f \in clear_destination(keyFile) :
                 Handled(action, device, "checksum_mismatch", watcher.active, f)
         ELSE /\ watcher' = [watcher EXCEPT !.pc = "writing", !.device = device, !.key = d.key,
                                            !.last = [action |-> action, device |-> device,
                                                      outcome |-> "writing",
                                                      cleared |-> "none"]]
              /\ write_call' = [NoWriteCall EXCEPT !.pc = "create_dir_all", !.key = d.key,
                                                   !.before = keyFile]
              /\ UNCHANGED keyFile

\* try_import 195-210: the `?` on write_raw_key_file and the new active
\* device
TryImportReturn ==
    /\ watcher.pc = "writing"
    /\ write_call.pc = "done"
    /\ write_call' = NoWriteCall
    /\ watcher' =
          IF write_call.result.ok
          THEN [watcher EXCEPT !.pc = "idle", !.device = NoDevice, !.key = <<>>,
                               !.active = [some |-> TRUE, devpath |-> watcher.device.devpath,
                                           devnode |-> watcher.device.devnode],
                               !.imported = watcher.key,
                               !.last.outcome = "imported"]
          ELSE [watcher EXCEPT !.pc = "idle", !.device = NoDevice, !.key = <<>>,
                               !.last.outcome = "write_failed"]
    /\ UNCHANGED <<keyFile, keyDir, beside_watch>>

\* whether a removed device is the active one
MatchesActive(active, device) ==
    \/ device.devpath = active.devpath
    \/ device.devnode # "" /\ device.devnode = active.devnode

\* a removal that only compares the devpath
HandleRemoval_DevpathOnly(action, device) ==
    IF ~watcher.active.some
    THEN Handled(action, device, "no_active", watcher.active, keyFile)
    ELSE IF device.devpath = watcher.active.devpath
    THEN \E f \in clear_destination(keyFile) : Handled(action, device, "removed", NoActive, f)
    ELSE Handled(action, device, "other_device", watcher.active, keyFile)

\* main.rs handle_removal 214-242
HandleRemoval(action, device) ==
    IF ~watcher.active.some
    THEN Handled(action, device, "no_active", watcher.active, keyFile)
    ELSE IF MatchesActive(watcher.active, device)
    THEN \E f \in clear_destination(keyFile) : Handled(action, device, "removed", NoActive, f)
    ELSE Handled(action, device, "other_device", watcher.active, keyFile)

\* main.rs event_loop 106-116 and process_device 124-134: one event
ProcessDevice(action, device) ==
    /\ watcher.pc = "idle"
    /\ write_call.pc = "idle"
    /\ IF action \in {"add", "change", "bind"} THEN TryImport(action, device)
       ELSE IF action \in {"remove", "unbind"} THEN HandleRemoval(action, device)
       ELSE Handled(action, device, "ignored", watcher.active, keyFile)
    /\ UNCHANGED <<keyDir, beside_watch>>

WatchConfigs ==
    [ datasets : {<<RootDs, ChildDs>>},
      expected_sha256 : ExpectedDigests,
      fallback : {[enabled |-> FALSE, passphrase_salt |-> None, passphrase_xor |-> None,
                   passphrase_iters |-> PassphraseIters]},
      retry : {[max_attempts |-> 0, base_delay_ms |-> 0, max_delay_ms |-> 0, jitter_pct |-> 0]} ]

\* the daemon has started; a key an earlier run left may be at the
\* destination
InitWatch ==
    /\ config \in WatchConfigs
    /\ locked = StatusGroup
    /\ keyFile \in {AbsentFile, [exists |-> TRUE, content |-> KeyC, mode |-> ModeOwnerRead]}
    /\ pc = "idle"
    /\ call = NoCall
    /\ attempt = 0
    /\ delay_ms = 0
    /\ root = ""
    /\ locked_before = None
    /\ usb = UsbNone
    /\ file_seen = None
    /\ key = <<>>
    /\ unlocked = <<>>
    /\ locked_after = None
    /\ attemptResult = BlankResult
    /\ result = BlankResult
    /\ trace = <<>>
    /\ observed_keys = <<>>
    /\ sleeps = <<>>
    /\ prev_attempt = NoAttempt
    /\ status_call = NoStatusCall
    /\ OthersIdle

NextWatch ==
    \/ \E action \in UdevActions, device \in UdevDevices : ProcessDevice(action, device)
    \/ CreateDirAll
    \/ FsWrite
    \/ FsSetPermissions
    \/ TryImportReturn

SpecWatch == InitWatch /\ [][NextWatch]_vars

\* ------------------------------------------------------------------------
\* workflow/provisioning.rs forge_key.  `steps` lists what the call has
\* done to the token and to the system, in order; a step that fails half
\* way is listed.  The token's key file is not the service's key file
\* until the saved configuration is loaded.
\* ------------------------------------------------------------------------
beside_forge ==
    <<locked, keyFile, status_call, unlock_state, provider_call, codec_call, keyDir,
      write_call, fallback_call, callers, drill_call, health, watcher>>

ForgeFailed(kind, detail) ==
    [forge_call EXCEPT !.pc = "done", !.result = UnitErr(kind, detail)]

ForgeStep(c, step, next) == [c EXCEPT !.pc = next, !.steps = Append(@, step)]

\* forge_key 69-80: entry and policy check
ForgeKey(dataset, mode, force_wipe, passphrase, rebuild) ==
    /\ forge_call.pc = "idle"
    /\ forge_call' =
          LET c == [NoForgeCall EXCEPT !.dataset = dataset, !.mode = mode,
                                       !.force_wipe = force_wipe, !.passphrase = passphrase,
                                       !.rebuild_initramfs = rebuild] IN
          IF ~contains_dataset(config, dataset)
          THEN [c EXCEPT !.pc = "done", !.result = UnitErr("DatasetNotConfigured", dataset)]
          ELSE [c EXCEPT !.pc = "encryption_root"]
    /\ UNCHANGED <<config, beside_forge>>

\* forge_key 82: provider.encryption_root(dataset)?
ForgeEncryptionRoot ==
    /\ forge_call.pc = "encryption_root"
    /\ \/ forge_call' = [forge_call EXCEPT !.pc = "locked_descendants",
                                            !.encryption_root = RootDs]
       \/ forge_call' = ForgeFailed("Provider", "encryption_root failed")
    /\ UNCHANGED <<config, beside_forge>>

\* a forge that goes on whatever the engine reports as locked
ForgeLockedDescendants_IgnoresLock ==
    /\ forge_call.pc = "locked_descendants"
    /\ \/ LET list == SortedList(locked) IN
          forge_call' =
             [forge_call EXCEPT !.locked_descendants = Some(list), !.pc = "usb_device"]
       \/ forge_call' = ForgeFailed("Provider", "locked_descendants failed")
    /\ UNCHANGED <<config, beside_forge>>

\* forge_key 88-93: provider.locked_descendants(&encryption_root)? and the
\* refusal while the root is locked
ForgeLockedDescendants ==
    /\ forge_call.pc = "locked_descendants"
    /\ \/ LET list == SortedList(locked) IN
          forge_call' =
             IF \E i \in 1..Len(list) : list[i] = forge_call.encryption_root
             THEN [ForgeFailed("Provider", "encryption root is still locked")
                     EXCEPT !.locked_descendants = Some(list)]
             ELSE [forge_call EXCEPT !.locked_descendants = Some(list), !.pc = "usb_device"]
       \/ forge_call' = ForgeFailed("Provider", "locked_descendants failed")
    /\ UNCHANGED <<config, beside_forge>>

\* forge_key 95-126: resolve_usb_device, derive_device_layout (both only
\* read), then wipe_usb_token 376-412 or ensure_partition_label 351-373
ForgeToken ==
    /\ forge_call.pc = "usb_device"
    /\ \/ forge_call' = ForgeFailed("InvalidConfig", "usb device not specified")
       \/ forge_call' = ForgeFailed("InvalidConfig", "device not found")
       \/ /\ forge_call.force_wipe \/ forge_call.mode # "Safe"
          /\ \/ forge_call' = ForgeStep(forge_call, "wipe_usb_token", "mount")
             \/ forge_call' =
                   [ForgeStep(forge_call, "wipe_usb_token", "done")
                      EXCEPT !.result = UnitErr("Provider", "mkfs.ext4 failed")]
       \/ /\ ~(forge_call.force_wipe \/ forge_call.mode # "Safe")
          /\ \/ forge_call' = [forge_call EXCEPT !.pc = "mount"]
             \/ forge_call' = ForgeFailed("InvalidConfig", "partition bears another label")
    /\ UNCHANGED <<config, beside_forge>>

\* forge_key 128-159: settle_udev, the mount, the new key material, its
\* file on the token, sync and unmount
ForgeWriteKey ==
    /\ forge_call.pc = "mount"
    /\ \/ forge_call' = ForgeFailed("Provider", "udevadm settle failed")
       \/ forge_call' = [ForgeStep(forge_call, "mount", "done")
                            EXCEPT !.result = UnitErr("Provider", "mount failed")]
       \/ \E k \in ProvisionedKeys :
             \/ forge_call' =
                   [ForgeStep(ForgeStep(forge_call, "mount", "configure"), "write_key",
                              "configure") EXCEPT !.key_material = k]
             \/ forge_call' =
                   [ForgeStep(ForgeStep(forge_call, "mount", "done"), "write_key", "done")
                      EXCEPT !.result = UnitErr("Io", "PermissionDenied")]
    /\ UNCHANGED <<config, beside_forge>>

\* forge_key 161-175: configure_fallback_passphrase 467-501 and
\* update_config 504-535 with config.save()
ForgeConfigure ==
    /\ forge_call.pc = "configure"
    /\ \E salt \in Salts :
          LET fallback == configure_fallback_passphrase(config.fallback, forge_call.passphrase,
                                                        forge_call.key_material, salt)
              digest == HexEncode(Sha256(forge_call.key_material))
              c == ForgeStep(forge_call, "configure_fallback", "install") IN
          /\ config' = [config EXCEPT !.fallback = fallback, !.expected_sha256 = Some(digest)]
          /\ \/ forge_call' = ForgeStep(c, "save_config", "install")
             \/ forge_call' = [ForgeStep(c, "save_config", "done")
                                  EXCEPT !.result = UnitErr("Io", "PermissionDenied")]
    /\ UNCHANGED beside_forge

\* forge_key 185-199: install_dracut_module, rebuild_initramfs and
\* audit_initramfs unless skipped, and the report
ForgeInstall ==
    /\ forge_call.pc = "install"
    /\ LET c == ForgeStep(forge_call, "install_dracut_module", "done") IN
       \/ forge_call' = [c EXCEPT !.result = UnitErr("Io", "PermissionDenied")]
       \/ /\ forge_call.rebuild_initramfs
          /\ \/ forge_call' = [ForgeStep(c, "rebuild_initramfs", "done")
                                  EXCEPT !.result = UnitOk]
             \/ forge_call' = [ForgeStep(c, "rebuild_initramfs", "done")
                                  EXCEPT !.result = UnitErr("Provider", "rebuild failed")]
       \/ /\ ~forge_call.rebuild_initramfs
          /\ forge_call' = [c EXCEPT !.result = UnitOk]
    /\ UNCHANGED <<config, beside_forge>>

\* the caller takes the report
ForgeReturn ==
    /\ forge_call.pc = "done"
    /\ forge_call' = NoForgeCall
    /\ UNCHANGED <<config, beside_forge>>

ForgeModes == {"Standard", "Safe"}

\* the configuration before provisioning: no checksum, no fallback
ForgeConfigs ==
    [ datasets : {<<RootDs, ChildDs>>},
      expected_sha256 : {None},
      fallback : {[enabled |-> FALSE, passphrase_salt |-> None, passphrase_xor |-> None,
                   passphrase_iters |-> PassphraseIters]},
      retry : {[max_attempts |-> 0, base_delay_ms |-> 0, max_delay_ms |-> 0, jitter_pct |-> 0]} ]

InitForge == config \in ForgeConfigs /\ SystemStart

NextForge ==
    \/ \E dataset \in {ChildDs, OtherDs}, mode \in ForgeModes, force_wipe \in BOOLEAN,
          passphrase \in {None, Some(Passphrase)}, rebuild \in BOOLEAN :
          ForgeKey(dataset, mode, force_wipe, passphrase, rebuild)
    \/ ForgeEncryptionRoot
    \/ ForgeLockedDescendants
    \/ ForgeToken
    \/ ForgeWriteKey
    \/ ForgeConfigure
    \/ ForgeInstall
    \/ ForgeReturn
    \/ EnvLoadKey
    \/ EnvUnloadKey

SpecForge == InitForge /\ [][NextForge]_vars

\* ------------------------------------------------------------------------
\* lockchain-daemon: the HealthChannel shared by watch_usb and
\* periodic_unlock, which run as tasks of a multi-threaded runtime
\* ------------------------------------------------------------------------
beside_health ==
    <<world, status_call, unlock_state, provider_call, codec_call, keyDir, write_call,
      fallback_call, callers, drill_call,
      watcher,
      forge_call>>

\* main.rs set_usb_ready 54-59 (usb.rs 41: health.set_usb_ready(present)):
\* everything done while the mutex is held
SetUsbReady(ready) ==
    /\ health.setter["watch_usb"].pc = "idle"
    /\ health' = [health EXCEPT
          !.usb_ready = ready,
          !.setter["watch_usb"] =
             [pc |-> "send", changed |-> health.usb_ready # ready,
              healthy |-> ready /\ health.unlock_ready]]
    /\ UNCHANGED beside_health

\* main.rs set_unlock_ready 66-71 (periodic_unlock 144, 155, 160):
\* everything done while the mutex is held
SetUnlockReady(ready) ==
    /\ health.setter["periodic_unlock"].pc = "idle"
    /\ health' = [health EXCEPT
          !.unlock_ready = ready,
          !.setter["periodic_unlock"] =
             [pc |-> "send", changed |-> health.unlock_ready # ready,
              healthy |-> health.usb_ready /\ ready]]
    /\ UNCHANGED beside_health

\* set_usb_ready 60-62 / set_unlock_ready 72-74: after the guard is
\* dropped, tx.send(healthy) if the flag changed
HealthSend(t) ==
    /\ health.setter[t].pc = "send"
    /\ health' = [health EXCEPT
          !.tx = IF health.setter[t].changed THEN health.setter[t].healthy ELSE @,
          !.setter[t] = IdleSetter]
    /\ UNCHANGED beside_health

\* health_server 188-190: the body of an answer
HealthServe ==
    /\ health' = [health EXCEPT !.served = IF health.tx THEN "OK" ELSE "DEGRADED"]
    /\ UNCHANGED beside_health

InitHealth == InitSystem

NextHealth ==
    \/ \E ready \in BOOLEAN : SetUsbReady(ready)
    \/ \E ready \in BOOLEAN : SetUnlockReady(ready)
    \/ \E t \in HealthTasks : HealthSend(t)
    \/ HealthServe

SpecHealth == InitHealth /\ [][NextHealth]_vars

\* ------------------------------------------------------------------------
\* workflow/mod.rs drill_key over the system provider's load_key_tree
\* ------------------------------------------------------------------------
beside_drill ==
    <<world, status_call, unlock_state, provider_call, codec_call, keyDir, write_call,
      fallback_call, callers, health,
      watcher,
      forge_call>>

StillLockedText == "Root still reports locked descendants after drill - investigate key content."

AllUnlockedText == "All descendants report unlocked after drill."

\* drill_key 65-68: the service and the options
DrillKey(dataset, strict_usb) ==
    /\ pc = "idle"
    /\ drill_call.pc = "idle"
    /\ drill_call' = [NoDrillCall EXCEPT !.pc = "unlock", !.dataset = dataset,
                                         !.strict_usb = strict_usb]
    /\ UNCHANGED beside_drill

\* drill_key 69: service.unlock_with_retry(dataset, options), entry
DrillUnlock ==
    /\ drill_call.pc = "unlock"
    /\ Call("unlock_with_retry", drill_call.dataset,
            [strict_usb |-> drill_call.strict_usb, fallback_passphrase |-> None,
             key_override |-> None])

\* drill_key 69-88: the `?` on the report and the first event
DrillReport ==
    /\ drill_call.pc = "unlock"
    /\ pc = "done"
    /\ drill_call' =
          IF ~result.ok
          THEN [drill_call EXCEPT !.pc = "done", !.result = result]
          ELSE [drill_call EXCEPT
                  !.pc = "locked_post",
                  !.report = result,
                  !.events =
                     IF result.already_unlocked
                     THEN <<event("Info", "Encryption root {} already unlocked",
                                  result.encryption_root, 0)>>
                     ELSE <<event("Success", "Unlocked {} ({} datasets)",
                                  result.encryption_root, Len(result.unlocked))>>]
    /\ UNCHANGED beside_drill

\* drill_key 90-101: provider.locked_descendants(&report.encryption_root)?
\* and the second event
DrillLockedPost ==
    /\ drill_call.pc = "locked_post"
    /\ \/ LET list == SortedList(locked)
              r == drill_call.report.encryption_root IN
          drill_call' =
             [drill_call EXCEPT
                !.pc = "done",
                !.locked_post = Some(list),
                !.events =
                   Append(@, IF \E i \in 1..Len(list) : list[i] = r
                             THEN event("Warn", StillLockedText, "", 0)
                             ELSE event("Info", AllUnlockedText, "", 0)),
                !.result = [BlankResult EXCEPT !.ok = TRUE, !.kind = "Ok",
                                               !.dataset = drill_call.dataset]]
       \/ drill_call' = [drill_call EXCEPT !.pc = "done",
                            !.result = Err("Provider", "locked_descendants failed")]
    /\ UNCHANGED beside_drill

\* the caller takes the report of the drill
DrillReturn ==
    /\ drill_call.pc = "done"
    /\ drill_call' = NoDrillCall
    /\ UNCHANGED beside_drill

DrillConfigs ==
    [ datasets : {<<RootDs, ChildDs>>},
      expected_sha256 : {None},
      fallback : {[enabled |-> FALSE, passphrase_salt |-> None, passphrase_xor |-> None,
                   passphrase_iters |-> PassphraseIters]},
      retry : {[max_attempts |-> 1, base_delay_ms |-> 500, max_delay_ms |-> 5000,
                jitter_pct |-> 0]} ]

InitDrill ==
    /\ config \in DrillConfigs
    /\ locked \in SUBSET StatusGroup
    /\ keyFile \in {AbsentFile, [exists |-> TRUE, content |-> HexFileB, mode |-> 420],
                     [exists |-> TRUE, content |-> KeyB, mode |-> ModeOwnerRead]}
    /\ pc = "idle"
    /\ call = NoCall
    /\ attempt = 0
    /\ delay_ms = 0
    /\ root = ""
    /\ locked_before = None
    /\ usb = UsbNone
    /\ file_seen = None
    /\ key = <<>>
    /\ unlocked = <<>>
    /\ locked_after = None
    /\ attemptResult = BlankResult
    /\ result = BlankResult
    /\ trace = <<>>
    /\ observed_keys = <<>>
    /\ sleeps = <<>>
    /\ prev_attempt = NoAttempt
    /\ status_call = NoStatusCall
    /\ OthersIdle

NextDrill ==
    \/ \E b \in BOOLEAN : DrillKey(ChildDs, b)
    \/ DrillUnlock
    \/ PerformUnlock
    \/ EncryptionRoot
    \/ LockedBefore
    \/ ReadKeyFile
    \/ WriteKeyFile
    \/ SetPermissions
    \/ SysLoadKeyTree
    \/ ZpoolList
    \/ LoadKeyRoot
    \/ ZfsList
    \/ ZfsKeystatus
    \/ LoadKeyPending
    \/ SysLoadKeyTreeReturn
    \/ LockedAfter
    \/ RetryReturn
    \/ DrillReport
    \/ (drill_call.pc # "unlock" /\ Return)
    \/ DrillLockedPost
    \/ DrillReturn
    \/ EnvUnloadKey

SpecDrill == InitDrill /\ [][NextDrill]_vars

\* unlock or status has returned what the root resolution of a dataset
\* the engine does not have gave
UnknownDatasetUnlockDone == pc = "done" /\ call.dataset = MissingDs

UnknownDatasetStatusDone == status_call.pc = "done" /\ status_call.dataset = MissingDs

C34_AllUnlockedMeansNoneLocked ==
    (/\ drill_call.pc = "done"
     /\ \E i \in 1..Len(drill_call.events) : drill_call.events[i].message = AllUnlockedText)
    => drill_call.locked_post = Some(<<>>)

ChecksumFailed(r) ==
    ~r.ok /\ r.kind = "InvalidConfig" /\ r.detail = "usb.expected_sha256 mismatch"

\* the key file holds the raw key k and nobody but the owner may read it
Normalised(k) == keyFile = [exists |-> TRUE, content |-> k, mode |-> ModeOwnerRead]

\* the attempt has read a hex-encoded key file and its checksum has not
\* matched
HexAttemptMismatched ==
    /\ pc = "attempt_done"
    /\ ChecksumFailed(attemptResult)
    /\ file_seen.some
    /\ decode_key_bytes(file_seen.val).ok
    /\ decode_key_bytes(file_seen.val).converted

\* C35: an attempt that read a hex-encoded key file and failed with a
\* checksum mismatch has rewritten the file as the raw decoded bytes with
\* mode 0400 before it verified the checksum, and no later step of the
\* call (a retry included) changes the normalised file.
C35_RewrittenBeforeChecksum ==
    /\ [](HexAttemptMismatched =>
            /\ Normalised(decode_key_bytes(file_seen.val).key)
            /\ trace = <<"encryption_root", "locked_descendants", "read_key_file",
                         "fs_write", "set_permissions", "verify_checksum">>)
    /\ [][(keyFile.exists /\ keyFile.mode = ModeOwnerRead /\ Len(keyFile.content) = KeyLen)
            => keyFile' = keyFile]_vars

\* the retry after an attempt that normalised the file has failed with
\* the same mismatch, having read the raw file
C35_Witness ==
    /\ call.fn = "unlock_with_retry"
    /\ attempt = 2
    /\ pc = "attempt_done"
    /\ ChecksumFailed(prev_attempt.res)
    /\ ChecksumFailed(attemptResult)
    /\ file_seen = Some(KeyB)
    /\ Normalised(KeyB)
    /\ trace = <<"encryption_root", "locked_descendants", "read_key_file", "verify_checksum">>

\* no call of set_usb_ready or set_unlock_ready is running
SettersDone == \A t \in HealthTasks : health.setter[t].pc = "idle"

\* C36: once the concurrent calls of set_usb_ready and set_unlock_ready
\* have completed, the value last published on the watch channel is
\* usb_ready && unlock_ready of the stored state, and the health endpoint
\* answers accordingly.
C36_PublishedHealthMatchesState ==
    SettersDone => health.tx = (health.usb_ready /\ health.unlock_ready)

\* the event handled by the step that leaves the watcher idle
ImportEvent == watcher.pc = "idle" /\ watcher'.last.action \in {"add", "change", "bind"}

RemovalEvent == watcher.pc = "idle" /\ watcher'.last.action \in {"remove", "unbind"}

\* the key k has the digest the configuration expects, if it expects one
DigestExpected(k) ==
    config.expected_sha256.some =>
        EqIgnoreAsciiCase(config.expected_sha256.val, HexEncode(Sha256(k)))

\* a matching, mounted device that is not the active one and whose key
\* file does not decode or has another digest than the expected one
Unusable(device, active) ==
    /\ device.devtype = "partition" /\ device.id_bus = "usb"
    /\ ~(active.some /\ active.devpath = device.devpath)
    /\ device.devnode # "" /\ device.mounted
    /\ \/ ~device.source.some
       \/ ~decode_key_bytes(device.source.val).ok
       \/ ~DigestExpected(decode_key_bytes(device.source.val).key)

\* the destination is gone, or remove_file has failed and left it as it was
DestinationCleared ==
    \/ ~keyFile'.exists
    \/ watcher'.last.cleared = "failed" /\ keyFile' = keyFile

C38_ActiveDeviceHasItsKeyInPlace ==
    /\ []((watcher.pc = "idle" /\ watcher.active.some) =>
            (keyFile.exists /\ keyFile.content = watcher.imported))
    /\ [][(/\ ImportEvent
           /\ device_matches(watcher'.last.device)
           /\ watcher.active.some
           /\ watcher.active.devpath = watcher'.last.device.devpath)
            => (keyFile' = keyFile /\ watcher'.active = watcher.active)]_vars

ForgeSteps ==
    {"wipe_usb_token", "mount", "write_key", "configure_fallback", "save_config",
     "install_dracut_module", "rebuild_initramfs"}

\* forge_key has been refused: nothing was done
Refused(kind) ==
    /\ forge_call.pc = "done"
    /\ ~forge_call.result.ok
    /\ forge_call.result.kind = kind
    /\ forge_call.steps = <<>>

\* C40: forge_key takes no destructive or persistent step unless the
\* dataset is in the policy and the engine has just reported the encryption
\* root as not locked; otherwise it fails with DatasetNotConfigured, or
\* with a provider error when the root is locked, before any such step;
\* in Safe mode without force_wipe it never wipes the token.
C40_ForgeOnlyWhenConfiguredAndUnlocked ==
    /\ [](forge_call.steps # <<>> =>
            /\ \E i \in 1..Len(config.datasets) : config.datasets[i] = forge_call.dataset
            /\ forge_call.locked_descendants.some
            /\ \A i \in 1..Len(forge_call.locked_descendants.val) :
                  forge_call.locked_descendants.val[i] # forge_call.encryption_root)
    /\ []((forge_call.pc = "done" /\ forge_call.dataset = OtherDs) =>
            Refused("DatasetNotConfigured"))
    /\ [][(/\ forge_call.pc = "locked_descendants"
           /\ forge_call'.pc \notin {"locked_descendants", "done"})
            => (forge_call.encryption_root \notin locked /\ forge_call'.steps = <<>>)]_vars
    /\ [][(/\ forge_call.pc = "locked_descendants"
           /\ forge_call'.locked_descendants.some
           /\ forge_call.encryption_root \in locked)
            => (/\ forge_call'.pc = "done" /\ forge_call'.steps = <<>>
                /\ ~forge_call'.result.ok /\ forge_call'.result.kind = "Provider")]_vars
    /\ []((forge_call.mode = "Safe" /\ ~forge_call.force_wipe) =>
            \A i \in 1..Len(forge_call.steps) : forge_call.steps[i] # "wipe_usb_token")
    /\ [](\A i \in 1..Len(forge_call.steps) : forge_call.steps[i] \in ForgeSteps)

\* a forge in Safe mode has run to its end on an unlocked root without
\* wiping the token
C40_Witness ==
    /\ forge_call.pc = "done"
    /\ forge_call.result.ok
    /\ forge_call.mode = "Safe"
    /\ ~forge_call.force_wipe
    /\ forge_call.dataset = ChildDs
    /\ forge_call.locked_descendants = Some(<<ChildDs>>)
    /\ forge_call.steps = <<"mount", "write_key", "configure_fallback", "save_config",
                            "install_dracut_module", "rebuild_initramfs">>
    /\ config.expected_sha256 = Some(HexEncode(Sha256(forge_call.key_material)))

====
